---- MODULE Spec2Model ----
(***************************************************************************)
(* Model of LDDC's furigana (ruby) generator: LDDC/core/ruby.              *)
(*                                                                         *)
(* Text is modelled as a sequence of Unicode code points, so that the      *)
(* character classes, the katakana shift and the hiragana filter are the   *)
(* range tests of the source.  Python indices are kept 0-based: a Python   *)
(* s[a:b] is Slice(s, a, b) and s[i] is At(s, i).                          *)
(***************************************************************************)
EXTENDS Integers, Sequences, FiniteSets, TLC

VARIABLES
    orig_text_raw,   \* generate_ruby: the original line
    roma_text_raw,   \* generate_ruby: the romanized line
    JP_VOCAB_TRIE,   \* the dictionary the call reads (read-only)
    pc,              \* "start" before a call; after it, the call that returned
    line_tokens,     \* the list _tokenize_orig_line returned
    results,         \* the list generate_ruby or process_line returned
    frame            \* the local variables of the loop that runs, when one does

vars == <<orig_text_raw, roma_text_raw, JP_VOCAB_TRIE, pc, line_tokens, results, frame>>

(***************************************************************************)
(* Code points of the characters the inputs are built from.                *)
(***************************************************************************)
Ch == [ sp     |-> 32,     \* ' '
        lpar   |-> 40,     \* '('
        rpar   |-> 41,     \* ')'
        comma  |-> 44,     \* ','
        apos   |-> 39,     \* '
        hyphen |-> 45,     \* '-'
        dot    |-> 46,     \* '.'
        zero   |-> 48,     \* '0'
        a      |-> 97,  f |-> 102, k |-> 107, m |-> 109, n |-> 110,
        t      |-> 116, u |-> 117, y |-> 121, z |-> 122,
        A_up   |-> 65,  N_up |-> 78, Z_up |-> 90,
        ha     |-> 12354,  \* あ
        hka    |-> 12363,  \* か
        hga    |-> 12364,  \* が
        hsu    |-> 12377,  \* す
        hzu    |-> 12378,  \* ず
        htu    |-> 12388,  \* つ
        hdu    |-> 12389,  \* づ
        hha    |-> 12399,  \* は
        hwa    |-> 12431,  \* わ
        hna    |-> 12394,  \* な
        hn     |-> 12435,  \* ん
        htsu   |-> 12387,  \* っ (sokuon)
        kka    |-> 12459,  \* カ
        long   |-> 12540,  \* ー
        noma   |-> 12293,  \* 々
        hei    |-> 24179,  \* 平
        sei    |-> 25104,  \* 成
        heisei |-> 13179,  \* ㍻ (NFKC: 平成)
        ellip  |-> 8230,   \* … (NFKC: ...)
        wsp    |-> 12288,  \* ideographic space (NFKC: ' ')
        block  |-> 9608 ]  \* █

PLACEHOLDER == <<Ch.block>>

Min2(a, b) == IF a <= b THEN a ELSE b
Max2(a, b) == IF a >= b THEN a ELSE b

(***************************************************************************)
(* Python string primitives on sequences of code points.                   *)
(***************************************************************************)
At(s, i) == s[i + 1]

\* s[a:b] for 0 <= a, with b clamped to len(s)
Slice(s, a, b) == SubSeq(s, a + 1, Min2(b, Len(s)))

\* s[a:]
From(s, a) == SubSeq(s, a + 1, Len(s))

\* s.startswith(p, i)
StartsWithAt(s, p, i) ==
    /\ i + Len(p) <= Len(s)
    /\ SubSeq(s, i + 1, i + Len(p)) = p

StartsWith(s, p) == StartsWithAt(s, p, 0)

EndsWith(s, p) ==
    /\ Len(p) <= Len(s)
    /\ SubSeq(s, Len(s) - Len(p) + 1, Len(s)) = p

\* s.find(sub, start, end): the lowest index in [start, end) at which sub
\* lies wholly inside s[start:end], or -1
Find(s, sub, start, end) ==
    LET e == Min2(end, Len(s))
        hits == {p \in start..(e - Len(sub)) : SubSeq(s, p + 1, p + Len(sub)) = sub}
    IN  IF hits = {} THEN -1 ELSE CHOOSE p \in hits : \A q \in hits : p <= q

\* sub in s
Contains(s, sub) == Find(s, sub, 0, Len(s)) # -1

RECURSIVE Concat(_)
\* "".join(parts)
Concat(parts) == IF parts = <<>> THEN <<>> ELSE Head(parts) \o Concat(Tail(parts))

RECURSIVE Replace(_, _, _)
\* s.replace(frm, to) for a non-empty frm: leftmost occurrences, not overlapping
Replace(s, frm, to) ==
    LET p == Find(s, frm, 0, Len(s))
    IN  IF p = -1 THEN s
        ELSE Slice(s, 0, p) \o to \o Replace(From(s, p + Len(frm)), frm, to)

\* c.isspace(), and the regular expressions' \s, on the modelled characters
IsSpace(c) == c = Ch.sp

RECURSIVE LStrip(_)
LStrip(s) == IF s # <<>> /\ IsSpace(Head(s)) THEN LStrip(Tail(s)) ELSE s

RECURSIVE RStrip(_)
RStrip(s) == IF s # <<>> /\ IsSpace(s[Len(s)]) THEN RStrip(SubSeq(s, 1, Len(s) - 1)) ELSE s

\* s.strip()
Strip(s) == RStrip(LStrip(s))

\* "".join(s.split()): s without its whitespace
NoSpace(s) == SelectSeq(s, LAMBDA c : ~IsSpace(c))

\* c.lower() on the modelled characters (ASCII letters)
Lower(c) == IF Ch.A_up <= c /\ c <= Ch.Z_up THEN c + 32 ELSE c

LowerStr(s) == [i \in 1..Len(s) |-> Lower(s[i])]

IsAsciiLower(c) == Ch.a <= c /\ c <= Ch.z

\* the set of characters of s
CharSet(s) == {s[i] : i \in 1..Len(s)}

\* sum of the entries of a sequence of numbers
RECURSIVE SumSeq(_)
SumSeq(s) == IF s = <<>> THEN 0 ELSE Head(s) + SumSeq(Tail(s))

(***************************************************************************)
(* char_utils.py                                                           *)
(***************************************************************************)
\* CharType (models.py); OTHER is a reserved word of TLA+
KANJI == "KANJI"
HIRAGANA == "HIRAGANA"
KATAKANA == "KATAKANA"
SYMBOL == "SYMBOL"
OTHER_TYPE == "OTHER"
CharType == {KANJI, HIRAGANA, KATAKANA, SYMBOL, OTHER_TYPE}

\* the code points of 「」『』【】、。，．・〜？！（）(),.?!'":：
SYMBOL_CHARS ==
    {12300, 12301, 12302, 12303, 12304, 12305, 12289, 12290, 65292, 65294,
     12539, 12316, 65311, 65281, 65288, 65289, 40, 41, 44, 46, 63, 33, 39, 34,
     65306, 58}

IsHiraganaChar(c) == 12352 <= c /\ c <= 12447     \* "぀" <= c <= "ゟ"
IsKatakanaChar(c) == 12448 <= c /\ c <= 12543     \* "゠" <= c <= "ヿ"
IsCJK(c) == 19968 <= c /\ c <= 40959              \* "一" <= c <= "鿿"

get_char_type(c) ==
    IF IsCJK(c) THEN KANJI
    ELSE IF c = Ch.noma THEN KANJI
    ELSE IF c \in SYMBOL_CHARS THEN SYMBOL
    ELSE IF IsHiraganaChar(c) THEN HIRAGANA
    ELSE IF IsKatakanaChar(c) THEN KATAKANA
    ELSE OTHER_TYPE

IsKana(ty) == ty \in {HIRAGANA, KATAKANA}
IsKanjiOrOther(ty) == ty \in {KANJI, OTHER_TYPE}

\* chr(ord(c) - 96) if "ァ" <= c <= "ヶ" else c
katakana_to_hiragana(s) ==
    [i \in 1..Len(s) |-> IF 12449 <= s[i] /\ s[i] <= 12534 THEN s[i] - 96 ELSE s[i]]

\* is_latin: more than half of the non-blank characters are Latin letters
is_latin(text) ==
    LET stripped_text == NoSpace(text)
        latin_chars == Len(SelectSeq(stripped_text, LAMBDA c : IsAsciiLower(Lower(c))))
        total_chars == Len(stripped_text)
    IN  IF stripped_text = <<>> THEN FALSE
        ELSE 2 * latin_chars > total_chars      \* latin_chars / total_chars > 0.5

(***************************************************************************)
(* romaji_converter.py                                                     *)
(***************************************************************************)
\* the syllable table, keys and values as code points
ROMA_HIRA_MAP ==
       (<<99, 104, 97>> :> <<12385, 12419>>)   \* cha -> ちゃ
    @@ (<<99, 104, 117>> :> <<12385, 12421>>)   \* chu -> ちゅ
    @@ (<<99, 104, 111>> :> <<12385, 12423>>)   \* cho -> ちょ
    @@ (<<115, 104, 97>> :> <<12375, 12419>>)   \* sha -> しゃ
    @@ (<<115, 104, 117>> :> <<12375, 12421>>)   \* shu -> しゅ
    @@ (<<115, 104, 111>> :> <<12375, 12423>>)   \* sho -> しょ
    @@ (<<104, 121, 97>> :> <<12402, 12419>>)   \* hya -> ひゃ
    @@ (<<104, 121, 117>> :> <<12402, 12421>>)   \* hyu -> ひゅ
    @@ (<<104, 121, 111>> :> <<12402, 12423>>)   \* hyo -> ひょ
    @@ (<<107, 121, 97>> :> <<12365, 12419>>)   \* kya -> きゃ
    @@ (<<107, 121, 117>> :> <<12365, 12421>>)   \* kyu -> きゅ
    @@ (<<107, 121, 111>> :> <<12365, 12423>>)   \* kyo -> きょ
    @@ (<<103, 121, 97>> :> <<12366, 12419>>)   \* gya -> ぎゃ
    @@ (<<103, 121, 117>> :> <<12366, 12421>>)   \* gyu -> ぎゅ
    @@ (<<103, 121, 111>> :> <<12366, 12423>>)   \* gyo -> ぎょ
    @@ (<<110, 121, 97>> :> <<12395, 12419>>)   \* nya -> にゃ
    @@ (<<110, 121, 117>> :> <<12395, 12421>>)   \* nyu -> にゅ
    @@ (<<110, 121, 111>> :> <<12395, 12423>>)   \* nyo -> にょ
    @@ (<<114, 121, 97>> :> <<12426, 12419>>)   \* rya -> りゃ
    @@ (<<114, 121, 117>> :> <<12426, 12421>>)   \* ryu -> りゅ
    @@ (<<114, 121, 111>> :> <<12426, 12423>>)   \* ryo -> りょ
    @@ (<<112, 121, 97>> :> <<12404, 12419>>)   \* pya -> ぴゃ
    @@ (<<112, 121, 117>> :> <<12404, 12421>>)   \* pyu -> ぴゅ
    @@ (<<112, 121, 111>> :> <<12404, 12423>>)   \* pyo -> ぴょ
    @@ (<<98, 121, 97>> :> <<12403, 12419>>)   \* bya -> びゃ
    @@ (<<98, 121, 117>> :> <<12403, 12421>>)   \* byu -> びゅ
    @@ (<<98, 121, 111>> :> <<12403, 12423>>)   \* byo -> びょ
    @@ (<<109, 121, 97>> :> <<12415, 12419>>)   \* mya -> みゃ
    @@ (<<109, 121, 117>> :> <<12415, 12421>>)   \* myu -> みゅ
    @@ (<<109, 121, 111>> :> <<12415, 12423>>)   \* myo -> みょ
    @@ (<<106, 97>> :> <<12376, 12419>>)   \* ja -> じゃ
    @@ (<<106, 117>> :> <<12376, 12421>>)   \* ju -> じゅ
    @@ (<<106, 111>> :> <<12376, 12423>>)   \* jo -> じょ
    @@ (<<115, 115, 117>> :> <<12387, 12377>>)   \* ssu -> っす
    @@ (<<116, 115, 97>> :> <<12388, 12353>>)   \* tsa -> つぁ
    @@ (<<116, 115, 105>> :> <<12388, 12355>>)   \* tsi -> つぃ
    @@ (<<116, 115, 101>> :> <<12388, 12359>>)   \* tse -> つぇ
    @@ (<<116, 115, 111>> :> <<12388, 12361>>)   \* tso -> つぉ
    @@ (<<116, 104, 105>> :> <<12390, 12355>>)   \* thi -> てぃ
    @@ (<<100, 104, 105>> :> <<12391, 12355>>)   \* dhi -> でぃ
    @@ (<<115, 104, 101>> :> <<12375, 12359>>)   \* she -> しぇ
    @@ (<<99, 104, 101>> :> <<12385, 12359>>)   \* che -> ちぇ
    @@ (<<102, 97>> :> <<12405, 12353>>)   \* fa -> ふぁ
    @@ (<<102, 105>> :> <<12405, 12355>>)   \* fi -> ふぃ
    @@ (<<102, 101>> :> <<12405, 12359>>)   \* fe -> ふぇ
    @@ (<<102, 111>> :> <<12405, 12361>>)   \* fo -> ふぉ
    @@ (<<119, 105>> :> <<12358, 12355>>)   \* wi -> うぃ
    @@ (<<119, 101>> :> <<12358, 12359>>)   \* we -> うぇ
    @@ (<<118, 97>> :> <<12436, 12353>>)   \* va -> ゔぁ
    @@ (<<118, 105>> :> <<12436, 12355>>)   \* vi -> ゔぃ
    @@ (<<118, 101>> :> <<12436, 12359>>)   \* ve -> ゔぇ
    @@ (<<118, 111>> :> <<12436, 12361>>)   \* vo -> ゔぉ
    @@ (<<106, 101>> :> <<12376, 12359>>)   \* je -> じぇ
    @@ (<<115, 104, 105>> :> <<12375>>)   \* shi -> し
    @@ (<<116, 115, 117>> :> <<12388>>)   \* tsu -> つ
    @@ (<<99, 104, 105>> :> <<12385>>)   \* chi -> ち
    @@ (<<122, 97>> :> <<12374>>)   \* za -> ざ
    @@ (<<122, 101>> :> <<12380>>)   \* ze -> ぜ
    @@ (<<122, 111>> :> <<12382>>)   \* zo -> ぞ
    @@ (<<100, 97>> :> <<12384>>)   \* da -> だ
    @@ (<<100, 101>> :> <<12391>>)   \* de -> で
    @@ (<<100, 111>> :> <<12393>>)   \* do -> ど
    @@ (<<98, 97>> :> <<12400>>)   \* ba -> ば
    @@ (<<98, 105>> :> <<12403>>)   \* bi -> び
    @@ (<<98, 117>> :> <<12406>>)   \* bu -> ぶ
    @@ (<<98, 101>> :> <<12409>>)   \* be -> べ
    @@ (<<98, 111>> :> <<12412>>)   \* bo -> ぼ
    @@ (<<112, 97>> :> <<12401>>)   \* pa -> ぱ
    @@ (<<112, 105>> :> <<12404>>)   \* pi -> ぴ
    @@ (<<112, 117>> :> <<12407>>)   \* pu -> ぷ
    @@ (<<112, 101>> :> <<12410>>)   \* pe -> ぺ
    @@ (<<112, 111>> :> <<12413>>)   \* po -> ぽ
    @@ (<<103, 97>> :> <<12364>>)   \* ga -> が
    @@ (<<103, 105>> :> <<12366>>)   \* gi -> ぎ
    @@ (<<103, 117>> :> <<12368>>)   \* gu -> ぐ
    @@ (<<103, 101>> :> <<12370>>)   \* ge -> げ
    @@ (<<103, 111>> :> <<12372>>)   \* go -> ご
    @@ (<<107, 97>> :> <<12363>>)   \* ka -> か
    @@ (<<107, 105>> :> <<12365>>)   \* ki -> き
    @@ (<<107, 117>> :> <<12367>>)   \* ku -> く
    @@ (<<107, 101>> :> <<12369>>)   \* ke -> け
    @@ (<<107, 111>> :> <<12371>>)   \* ko -> こ
    @@ (<<115, 97>> :> <<12373>>)   \* sa -> さ
    @@ (<<115, 117>> :> <<12377>>)   \* su -> す
    @@ (<<115, 101>> :> <<12379>>)   \* se -> せ
    @@ (<<115, 111>> :> <<12381>>)   \* so -> そ
    @@ (<<116, 97>> :> <<12383>>)   \* ta -> た
    @@ (<<116, 101>> :> <<12390>>)   \* te -> て
    @@ (<<116, 111>> :> <<12392>>)   \* to -> と
    @@ (<<110, 97>> :> <<12394>>)   \* na -> な
    @@ (<<110, 105>> :> <<12395>>)   \* ni -> に
    @@ (<<110, 117>> :> <<12396>>)   \* nu -> ぬ
    @@ (<<110, 101>> :> <<12397>>)   \* ne -> ね
    @@ (<<110, 111>> :> <<12398>>)   \* no -> の
    @@ (<<104, 97>> :> <<12399>>)   \* ha -> は
    @@ (<<104, 105>> :> <<12402>>)   \* hi -> ひ
    @@ (<<102, 117>> :> <<12405>>)   \* fu -> ふ
    @@ (<<104, 101>> :> <<12408>>)   \* he -> へ
    @@ (<<104, 111>> :> <<12411>>)   \* ho -> ほ
    @@ (<<109, 97>> :> <<12414>>)   \* ma -> ま
    @@ (<<109, 105>> :> <<12415>>)   \* mi -> み
    @@ (<<109, 117>> :> <<12416>>)   \* mu -> む
    @@ (<<109, 101>> :> <<12417>>)   \* me -> め
    @@ (<<109, 111>> :> <<12418>>)   \* mo -> も
    @@ (<<121, 97>> :> <<12420>>)   \* ya -> や
    @@ (<<121, 117>> :> <<12422>>)   \* yu -> ゆ
    @@ (<<121, 111>> :> <<12424>>)   \* yo -> よ
    @@ (<<114, 97>> :> <<12425>>)   \* ra -> ら
    @@ (<<114, 105>> :> <<12426>>)   \* ri -> り
    @@ (<<114, 117>> :> <<12427>>)   \* ru -> る
    @@ (<<114, 101>> :> <<12428>>)   \* re -> れ
    @@ (<<114, 111>> :> <<12429>>)   \* ro -> ろ
    @@ (<<119, 97>> :> <<12431>>)   \* wa -> わ
    @@ (<<119, 111>> :> <<12434>>)   \* wo -> を
    @@ (<<106, 105>> :> <<12376>>)   \* ji -> じ
    @@ (<<122, 117>> :> <<12378>>)   \* zu -> ず
    @@ (<<100, 105>> :> <<12386>>)   \* di -> ぢ
    @@ (<<100, 117>> :> <<12389>>)   \* du -> づ
    @@ (<<97, 97>> :> <<12354, 12354>>)   \* aa -> ああ
    @@ (<<105, 105>> :> <<12356, 12356>>)   \* ii -> いい
    @@ (<<117, 117>> :> <<12358, 12358>>)   \* uu -> うう
    @@ (<<101, 101>> :> <<12360, 12360>>)   \* ee -> ええ
    @@ (<<111, 111>> :> <<12362, 12362>>)   \* oo -> おお
    @@ (<<111, 117>> :> <<12362, 12358>>)   \* ou -> おう
    @@ (<<115, 105>> :> <<12375>>)   \* si -> し
    @@ (<<116, 105>> :> <<12385>>)   \* ti -> ち
    @@ (<<116, 117>> :> <<12388>>)   \* tu -> つ
    @@ (<<104, 117>> :> <<12405>>)   \* hu -> ふ
    @@ (<<108, 97>> :> <<12425>>)   \* la -> ら
    @@ (<<108, 105>> :> <<12426>>)   \* li -> り
    @@ (<<108, 117>> :> <<12427>>)   \* lu -> る
    @@ (<<108, 101>> :> <<12428>>)   \* le -> れ
    @@ (<<108, 111>> :> <<12429>>)   \* lo -> ろ
    @@ (<<120, 105>> :> <<12375>>)   \* xi -> し
    @@ (<<113, 105>> :> <<12385>>)   \* qi -> ち
    @@ (<<99, 117>> :> <<12388>>)   \* cu -> つ
    @@ (<<97>> :> <<12354>>)   \* a -> あ
    @@ (<<105>> :> <<12356>>)   \* i -> い
    @@ (<<117>> :> <<12358>>)   \* u -> う
    @@ (<<101>> :> <<12360>>)   \* e -> え
    @@ (<<111>> :> <<12362>>)   \* o -> お
    @@ (<<110>> :> <<12435>>)   \* n -> ん

VOWELS == {97, 105, 117, 101, 111}                       \* "aiueo"
CONSONANTS == {98, 99, 100, 102, 103, 104, 106, 107, 108, 109, 110, 112, 113, 114, 115, 116, 118, 119, 120, 121, 122}
    \* "bcdfghjklmnpqrstvwxyz"

\* \w of the regular expressions, on the modelled characters
IsWordChar(c) ==
    \/ IsAsciiLower(Lower(c))
    \/ (48 <= c /\ c <= 57)
    \/ c = 95
    \/ IsHiraganaChar(c) \/ IsKatakanaChar(c) \/ IsCJK(c) \/ c = Ch.noma

RECURSIVE replace_long_vowel(_)
\* re.sub(r"([a-z])-", replace_long_vowel, text)
replace_long_vowel(text) ==
    IF Len(text) < 2 THEN text
    ELSE IF IsAsciiLower(text[1]) /\ text[2] = Ch.hyphen
         THEN (IF text[1] \in VOWELS THEN <<text[1], text[1]>> ELSE <<text[1], text[2]>>)
              \o replace_long_vowel(From(text, 2))
         ELSE <<text[1]>> \o replace_long_vowel(Tail(text))

RECURSIVE fix_uta(_, _)
\* re.sub(r"\buta\b", "futa", text), scanning from index i
fix_uta(text, i) ==
    IF i >= Len(text) THEN <<>>
    ELSE IF /\ StartsWithAt(text, <<Ch.u, Ch.t, Ch.a>>, i)
            /\ (i = 0 \/ ~IsWordChar(At(text, i - 1)))
            /\ (i + 3 = Len(text) \/ ~IsWordChar(At(text, i + 3)))
         THEN <<Ch.f, Ch.u, Ch.t, Ch.a>> \o fix_uta(text, i + 3)
         ELSE <<At(text, i)>> \o fix_uta(text, i + 1)

_preprocess_romaji(romaji) ==
    LET text0 == Strip(LowerStr(romaji))
        text1 == IF EndsWith(text0, <<Ch.apos>>)
                 THEN Strip(Slice(text0, 0, Len(text0) - 1))
                 ELSE text0
    IN  fix_uta(replace_long_vowel(text1), 0)

\* apostrophe_out without the test of the character before
apostrophe_out_geminate(romaji, i) == <<Ch.htsu>>

\* what the apostrophe at index i appends: nothing after an n, else a sokuon
apostrophe_out(romaji, i) ==
    IF ~(i > 0 /\ At(romaji, i - 1) = Ch.n) THEN <<Ch.htsu>> ELSE <<>>

\* roma_step without the "i += 1" of the last branch
roma_step_stalled(romaji, i) ==
    LET n == Len(romaji)
        c == At(romaji, i)
        InMap(length) == i + length <= n /\ Slice(romaji, i, i + length) \in DOMAIN ROMA_HIRA_MAP
        nxt == At(romaji, i + 1)
        is_n_char == c = Ch.n
        is_m_char_as_n == /\ c = Ch.m
                          /\ i + 1 < n
                          /\ nxt \notin VOWELS
                          /\ nxt \notin {Ch.y, Ch.apos, Ch.sp}
    IN  IF IsSpace(c) THEN [adv |-> 1, out |-> <<c>>]
        ELSE IF InMap(3) THEN [adv |-> 3, out |-> ROMA_HIRA_MAP[Slice(romaji, i, i + 3)]]
        ELSE IF InMap(2) THEN [adv |-> 2, out |-> ROMA_HIRA_MAP[Slice(romaji, i, i + 2)]]
        ELSE IF InMap(1) THEN [adv |-> 1, out |-> ROMA_HIRA_MAP[Slice(romaji, i, i + 1)]]
        ELSE IF i + 1 < n /\ c \in CONSONANTS /\ c = nxt
             THEN [adv |-> 1, out |-> <<Ch.htsu>>]
        ELSE IF /\ (is_n_char \/ is_m_char_as_n)
                /\ ~(i + 1 < n /\ nxt \in (VOWELS \cup {Ch.y, Ch.apos}))
             THEN [adv |-> 1, out |-> <<Ch.hn>>]
        ELSE IF c = Ch.apos
             THEN [adv |-> 1, out |-> apostrophe_out(romaji, i)]
        ELSE [adv |-> 0, out |-> <<c>>]

\* One iteration of roma_to_hiragana's loop at index i < n of the preprocessed
\* text: the number of characters consumed and the characters appended.
roma_step(romaji, i) ==
    LET n == Len(romaji)
        c == At(romaji, i)
        InMap(length) == i + length <= n /\ Slice(romaji, i, i + length) \in DOMAIN ROMA_HIRA_MAP
        nxt == At(romaji, i + 1)
        is_n_char == c = Ch.n
        is_m_char_as_n == /\ c = Ch.m
                          /\ i + 1 < n
                          /\ nxt \notin VOWELS
                          /\ nxt \notin {Ch.y, Ch.apos, Ch.sp}
    IN  IF IsSpace(c) THEN [adv |-> 1, out |-> <<c>>]
        ELSE IF InMap(3) THEN [adv |-> 3, out |-> ROMA_HIRA_MAP[Slice(romaji, i, i + 3)]]
        ELSE IF InMap(2) THEN [adv |-> 2, out |-> ROMA_HIRA_MAP[Slice(romaji, i, i + 2)]]
        ELSE IF InMap(1) THEN [adv |-> 1, out |-> ROMA_HIRA_MAP[Slice(romaji, i, i + 1)]]
        ELSE IF i + 1 < n /\ c \in CONSONANTS /\ c = nxt
             THEN [adv |-> 1, out |-> <<Ch.htsu>>]
        ELSE IF /\ (is_n_char \/ is_m_char_as_n)
                /\ ~(i + 1 < n /\ nxt \in (VOWELS \cup {Ch.y, Ch.apos}))
             THEN [adv |-> 1, out |-> <<Ch.hn>>]
        ELSE IF c = Ch.apos
             THEN [adv |-> 1, out |-> apostrophe_out(romaji, i)]
        ELSE [adv |-> 1, out |-> <<c>>]

RECURSIVE roma_loop(_, _)
roma_loop(romaji, i) ==
    IF i >= Len(romaji) THEN <<>>
    ELSE LET s == roma_step(romaji, i)
         IN  s.out \o roma_loop(romaji, i + s.adv)

roma_to_hiragana(romaji) == roma_loop(_preprocess_romaji(romaji), 0)

\* "".join(c for c in s if "぀" <= c <= "ゟ")
HiraganaOnly(s) == SelectSeq(s, IsHiraganaChar)

(***************************************************************************)
(* models.py: Token.  A missing group_id (None) is NoGroup; the group      *)
(* counter of the tokenizer starts at 1.                                   *)
(***************************************************************************)
NoGroup == 0

Token(text, char_type, start, end, group_id) ==
    [text |-> text, char_type |-> char_type, start |-> start, end |-> end,
     group_id |-> group_id]

\* "".join(t.text for t in tokens)
JoinText(tokens) == Concat([i \in 1..Len(tokens) |-> tokens[i].text])

(***************************************************************************)
(* dictionary.py: the reverse dictionary.  JP_VOCAB_TRIE is a sequence of  *)
(* entries [word, readings]; the two queries are the only way the core     *)
(* reads it.                                                               *)
(***************************************************************************)
\* find_all_prefix_matches: the words that are a prefix of text, longest first
RECURSIVE SortLongestFirst(_)
SortLongestFirst(entries) ==
    IF entries = {} THEN <<>>
    ELSE LET e == CHOOSE x \in entries : \A y \in entries : Len(x.word) >= Len(y.word)
         IN  <<e>> \o SortLongestFirst(entries \ {e})

find_all_prefix_matches(trie, text) ==
    SortLongestFirst({trie[i] : i \in {j \in 1..Len(trie) : StartsWith(text, trie[j].word)}})

\* find_word: the readings of exactly this word, or none (the empty tuple)
find_word(trie, word) ==
    LET hits == {i \in 1..Len(trie) : trie[i].word = word}
    IN  IF hits = {} THEN <<>> ELSE trie[CHOOSE i \in hits : TRUE].readings

(***************************************************************************)
(* mapper.py: IndexMapper                                                  *)
(***************************************************************************)
\* unicodedata.normalize("NFKC", char) on the modelled characters
normalize_NFKC_char(c) ==
    IF c = Ch.heisei THEN <<Ch.hei, Ch.sei>>
    ELSE IF c = Ch.ellip THEN <<Ch.dot, Ch.dot, Ch.dot>>
    ELSE IF c = Ch.wsp THEN <<Ch.sp>>
    ELSE <<c>>

\* unicodedata.normalize("NFKC", text)
normalize_NFKC(text) == Concat([i \in 1..Len(text) |-> normalize_NFKC_char(text[i])])

RECURSIVE build_mapping_once(_, _)
\* build_mapping with one entry for every original character
build_mapping_once(text, i) ==
    IF i >= Len(text) THEN <<>> ELSE <<i>> \o build_mapping_once(text, i + 1)

RECURSIVE build_mapping(_, _)
\* mapping.extend([i] * len(normalized_char)) for i = from .. len(text) - 1
build_mapping(text, i) ==
    IF i >= Len(text) THEN <<>>
    ELSE [k \in 1..Len(normalize_NFKC_char(At(text, i))) |-> i] \o build_mapping(text, i + 1)

\* IndexMapper(original_text)
IndexMapper(original_text) ==
    [original_text |-> original_text,
     normalized_text |-> normalize_NFKC(original_text),
     normalized_to_original_map |-> build_mapping(original_text, 0)]

\* to_original_indices with the exclusive end taken for an inclusive one
to_original_indices_inclusive(mapper, start, end) ==
    LET map == mapper.normalized_to_original_map
        norm_len == Len(map)
        orig_len == Len(mapper.original_text)
    IN  IF map = <<>> THEN <<start, end>>
        ELSE IF start >= norm_len THEN <<orig_len, orig_len>>
        ELSE <<At(map, start),
               IF end > 0 /\ end <= norm_len THEN At(map, end - 1) ELSE orig_len>>

to_original_indices(mapper, start, end) ==
    LET map == mapper.normalized_to_original_map
        norm_len == Len(map)
        orig_len == Len(mapper.original_text)
    IN  IF map = <<>> THEN <<start, end>>
        ELSE IF start >= norm_len THEN <<orig_len, orig_len>>
        ELSE <<At(map, start),
               IF end > 0 /\ end <= norm_len THEN At(map, end - 1) + 1 ELSE orig_len>>

(***************************************************************************)
(* __init__.py: the tokenizer                                              *)
(***************************************************************************)
\* any("一" <= char <= "鿿" for char in text)
contains_Kanji(text) == \E i \in 1..Len(text) : IsCJK(text[i])

\* RunEnd for runs of one character
RunEnd_single(text, j, ty) == j

RECURSIVE RunEnd(_, _, _)
\* the end j of the run of characters of type ty that holds index j - 1
RunEnd(text, j, ty) ==
    IF j < Len(text) /\ get_char_type(At(text, j)) = ty THEN RunEnd(text, j + 1, ty) ELSE j

RECURSIVE decompose_unshifted(_, _, _, _)
\* decompose with the offsets of the sub-tokens taken inside the match
decompose_unshifted(longest_match, decomposed_start, sub_i, group_id) ==
    IF sub_i >= Len(longest_match) THEN <<>>
    ELSE LET current_char_type == get_char_type(At(longest_match, sub_i))
             sub_j == RunEnd(longest_match, sub_i + 1, current_char_type)
         IN  <<Token(Slice(longest_match, sub_i, sub_j), current_char_type,
                     sub_i, sub_j, group_id)>>
             \o decompose_unshifted(longest_match, decomposed_start, sub_j, group_id)

RECURSIVE decompose(_, _, _, _)
\* the same-type runs of a dictionary match, from sub_i on, as tokens of one group
decompose(longest_match, decomposed_start, sub_i, group_id) ==
    IF sub_i >= Len(longest_match) THEN <<>>
    ELSE LET current_char_type == get_char_type(At(longest_match, sub_i))
             sub_j == RunEnd(longest_match, sub_i + 1, current_char_type)
         IN  <<Token(Slice(longest_match, sub_i, sub_j), current_char_type,
                     decomposed_start + sub_i, decomposed_start + sub_j, group_id)>>
             \o decompose(longest_match, decomposed_start, sub_j, group_id)

RECURSIVE scan_tokens(_, _, _)
\* the left-to-right scan (the while loop) from index i, group_id_counter given
scan_tokens(text, i, group_id_counter) ==
    IF i >= Len(text) THEN <<>>
    ELSE LET matches == find_all_prefix_matches(JP_VOCAB_TRIE, From(text, i))
         IN  IF matches # <<>>
             THEN LET longest_match == matches[1].word
                  IN  decompose(longest_match, i, 0, group_id_counter + 1)
                      \o scan_tokens(text, i + Len(longest_match), group_id_counter + 1)
             ELSE LET char_type == get_char_type(At(text, i))
                      j == RunEnd(text, i + 1, char_type)
                  IN  <<Token(Slice(text, i, j), char_type, i, j, NoGroup)>>
                      \o scan_tokens(text, j, group_id_counter)

RECURSIVE merge_other(_, _)
\* the post-pass: adjacent OTHER tokens without a group are merged into one
merge_other(merged_tokens, rest) ==
    IF rest = <<>> THEN merged_tokens
    ELSE LET prev_token == merged_tokens[Len(merged_tokens)]
             curr_token == Head(rest)
         IN  IF /\ prev_token.char_type = OTHER_TYPE /\ curr_token.char_type = OTHER_TYPE
                /\ prev_token.group_id = NoGroup /\ curr_token.group_id = NoGroup
             THEN merge_other(
                      SubSeq(merged_tokens, 1, Len(merged_tokens) - 1)
                      \o <<Token(prev_token.text \o curr_token.text, OTHER_TYPE,
                                 prev_token.start, curr_token.end, NoGroup)>>,
                      Tail(rest))
             ELSE merge_other(Append(merged_tokens, curr_token), Tail(rest))

_tokenize_orig_line(text) ==
    LET tokens == scan_tokens(text, 0, 0)
    IN  IF tokens = <<>> THEN <<>> ELSE merge_other(<<Head(tokens)>>, Tail(tokens))

(***************************************************************************)
(* rules.py: the fuzzy matching rules                                      *)
(***************************************************************************)
\* VOWEL_MAP: kana -> the vowel it ends in
VOWEL_MAP ==
       (12354 :> 12354)   \* あ -> あ
    @@ (12363 :> 12354)   \* か -> あ
    @@ (12373 :> 12354)   \* さ -> あ
    @@ (12383 :> 12354)   \* た -> あ
    @@ (12394 :> 12354)   \* な -> あ
    @@ (12399 :> 12354)   \* は -> あ
    @@ (12414 :> 12354)   \* ま -> あ
    @@ (12420 :> 12354)   \* や -> あ
    @@ (12425 :> 12354)   \* ら -> あ
    @@ (12431 :> 12354)   \* わ -> あ
    @@ (12364 :> 12354)   \* が -> あ
    @@ (12374 :> 12354)   \* ざ -> あ
    @@ (12384 :> 12354)   \* だ -> あ
    @@ (12400 :> 12354)   \* ば -> あ
    @@ (12401 :> 12354)   \* ぱ -> あ
    @@ (12419 :> 12354)   \* ゃ -> あ
    @@ (12353 :> 12354)   \* ぁ -> あ
    @@ (12430 :> 12354)   \* ゎ -> あ
    @@ (12356 :> 12356)   \* い -> い
    @@ (12365 :> 12356)   \* き -> い
    @@ (12375 :> 12356)   \* し -> い
    @@ (12385 :> 12356)   \* ち -> い
    @@ (12395 :> 12356)   \* に -> い
    @@ (12402 :> 12356)   \* ひ -> い
    @@ (12415 :> 12356)   \* み -> い
    @@ (12426 :> 12356)   \* り -> い
    @@ (12366 :> 12356)   \* ぎ -> い
    @@ (12376 :> 12356)   \* じ -> い
    @@ (12386 :> 12356)   \* ぢ -> い
    @@ (12403 :> 12356)   \* び -> い
    @@ (12404 :> 12356)   \* ぴ -> い
    @@ (12355 :> 12356)   \* ぃ -> い
    @@ (12358 :> 12358)   \* う -> う
    @@ (12367 :> 12358)   \* く -> う
    @@ (12377 :> 12358)   \* す -> う
    @@ (12388 :> 12358)   \* つ -> う
    @@ (12396 :> 12358)   \* ぬ -> う
    @@ (12405 :> 12358)   \* ふ -> う
    @@ (12416 :> 12358)   \* む -> う
    @@ (12422 :> 12358)   \* ゆ -> う
    @@ (12427 :> 12358)   \* る -> う
    @@ (12368 :> 12358)   \* ぐ -> う
    @@ (12378 :> 12358)   \* ず -> う
    @@ (12389 :> 12358)   \* づ -> う
    @@ (12406 :> 12358)   \* ぶ -> う
    @@ (12407 :> 12358)   \* ぷ -> う
    @@ (12421 :> 12358)   \* ゅ -> う
    @@ (12357 :> 12358)   \* ぅ -> う
    @@ (12360 :> 12360)   \* え -> え
    @@ (12369 :> 12360)   \* け -> え
    @@ (12379 :> 12360)   \* せ -> え
    @@ (12390 :> 12360)   \* て -> え
    @@ (12397 :> 12360)   \* ね -> え
    @@ (12408 :> 12360)   \* へ -> え
    @@ (12417 :> 12360)   \* め -> え
    @@ (12428 :> 12360)   \* れ -> え
    @@ (12370 :> 12360)   \* げ -> え
    @@ (12380 :> 12360)   \* ぜ -> え
    @@ (12391 :> 12360)   \* で -> え
    @@ (12409 :> 12360)   \* べ -> え
    @@ (12410 :> 12360)   \* ぺ -> え
    @@ (12359 :> 12360)   \* ぇ -> え
    @@ (12362 :> 12362)   \* お -> お
    @@ (12371 :> 12362)   \* こ -> お
    @@ (12381 :> 12362)   \* そ -> お
    @@ (12392 :> 12362)   \* と -> お
    @@ (12398 :> 12362)   \* の -> お
    @@ (12411 :> 12362)   \* ほ -> お
    @@ (12418 :> 12362)   \* も -> お
    @@ (12424 :> 12362)   \* よ -> お
    @@ (12429 :> 12362)   \* ろ -> お
    @@ (12434 :> 12362)   \* を -> お
    @@ (12372 :> 12362)   \* ご -> お
    @@ (12382 :> 12362)   \* ぞ -> お
    @@ (12393 :> 12362)   \* ど -> お
    @@ (12412 :> 12362)   \* ぼ -> お
    @@ (12413 :> 12362)   \* ぽ -> お
    @@ (12423 :> 12362)   \* ょ -> お
    @@ (12361 :> 12362)   \* ぉ -> お

\* the keys of VOWEL_MAP in the order the dict literal lists them
VOWEL_MAP_KEYS ==
    <<12354, 12363, 12373, 12383, 12394, 12399, 12414, 12420, 12425, 12431, 12364, 12374,
    12384, 12400, 12401, 12419, 12353, 12430, 12356, 12365, 12375, 12385, 12395, 12402, 12415,
    12426, 12366, 12376, 12386, 12403, 12404, 12355, 12358, 12367, 12377, 12388, 12396, 12405,
    12416, 12422, 12427, 12368, 12378, 12389, 12406, 12407, 12421, 12357, 12360, 12369, 12379,
    12390, 12397, 12408, 12417, 12428, 12370, 12380, 12391, 12409, 12410, 12359, 12362, 12371,
    12381, 12392, 12398, 12411, 12418, 12424, 12429, 12434, 12372, 12382, 12393, 12412, 12413,
    12423, 12361>>

COST_EQUIVALENT == 0
COST_COMMON_VARIANT == 1
COST_RARE_VARIANT == 2

SUBSTITUTION == "SUBSTITUTION"
FUNCTION == "FUNCTION"

\* SubstitutionRule(name, cost, content = (frm, to), introduced_chars); a name is
\* the source's "<base>_<frm>_to_<to>", kept as its three parts
SubstitutionRule(base_name, cost, frm, to, introduced_chars) ==
    [name |-> [base |-> base_name, frm |-> frm, to |-> to], cost |-> cost,
     rule_type |-> SUBSTITUTION, frm |-> frm, to |-> to,
     introduced_chars |-> introduced_chars]

\* FuncRule(name, cost, content = _handle_long_vowel, introduced_chars)
FuncRule(base_name, cost, introduced_chars) ==
    [name |-> [base |-> base_name, frm |-> <<>>, to |-> <<>>], cost |-> cost,
     rule_type |-> FUNCTION, frm |-> <<>>, to |-> <<>>,
     introduced_chars |-> introduced_chars]

RECURSIVE _create_substitution_rules(_, _, _, _)
\* for every pair (a, b): the rule a -> b, then the rule b -> a
_create_substitution_rules(pairs, base_name, cost_a_to_b, cost_b_to_a) ==
    IF pairs = <<>> THEN <<>>
    ELSE LET a == Head(pairs)[1]
             b == Head(pairs)[2]
         IN  <<SubstitutionRule(base_name, cost_a_to_b, a, b, CharSet(b)),
               SubstitutionRule(base_name, cost_b_to_a, b, a, CharSet(a))>>
             \o _create_substitution_rules(Tail(pairs), base_name, cost_a_to_b, cost_b_to_a)

\* the previous token's last character, for a long mark that opens the anchor
PrevTokenChar(tokens, current_token) ==
    LET hits == {i \in 1..Len(tokens) : tokens[i] = current_token}
        idx == CHOOSE i \in hits : \A j \in hits : i <= j     \* tokens.index(current_token)
    IN  IF hits = {} THEN <<>>                                \* ValueError: no context
        ELSE IF idx > 1 /\ tokens[idx - 1].text # <<>>
             THEN katakana_to_hiragana(<<tokens[idx - 1].text[Len(tokens[idx - 1].text)]>>)
             ELSE <<>>

\* _handle_long_vowel: every long mark becomes the vowel of the character before it
_handle_long_vowel(anchor, tokens, current_token) ==
    IF Ch.long \notin CharSet(anchor) THEN anchor
    ELSE [i \in 1..Len(anchor) |->
            IF anchor[i] # Ch.long THEN anchor[i]
            ELSE LET prev_char == IF i > 1 THEN <<anchor[i - 1]>>
                                  ELSE PrevTokenChar(tokens, current_token)
                 IN  IF prev_char # <<>> /\ prev_char[1] \in DOMAIN VOWEL_MAP
                     THEN VOWEL_MAP[prev_char[1]]
                     ELSE Ch.long]

o_dan == SelectSeq(VOWEL_MAP_KEYS, LAMBDA k : VOWEL_MAP[k] = 12362)     \* v == "お"
e_dan == SelectSeq(VOWEL_MAP_KEYS, LAMBDA k : VOWEL_MAP[k] = 12360)     \* v == "え"

\* (char + "う", char + "お") for o_dan, then (char + "い", char + "え") for e_dan
_long_vowel_pairs ==
    [i \in 1..Len(o_dan) |-> <<<<o_dan[i], 12358>>, <<o_dan[i], 12362>>>>]
    \o [i \in 1..Len(e_dan) |-> <<<<e_dan[i], 12356>>, <<e_dan[i], 12360>>>>]

_long_vowel_rules ==
    _create_substitution_rules(_long_vowel_pairs, "long_vowel", COST_EQUIVALENT, COST_EQUIVALENT)

\* small_to_large_map.items()
small_to_large_pairs ==
    <<
      <<<<12353>>, <<12354>>>>, <<<<12355>>, <<12356>>>>, <<<<12357>>, <<12358>>>>, <<<<12359>>, <<12360>>>>, <<<<12361>>, <<12362>>>>,
      <<<<12419>>, <<12420>>>>, <<<<12421>>, <<12422>>>>, <<<<12423>>, <<12424>>>>, <<<<12387>>, <<12388>>>>, <<<<12430>>, <<12431>>>>
    >>

_kana_variation_rules ==
    _create_substitution_rules(small_to_large_pairs, "kana_variation",
                               COST_COMMON_VARIANT, COST_RARE_VARIANT)

voicing_pairs ==
    <<
      <<<<12363>>, <<12364>>>>, <<<<12365>>, <<12366>>>>, <<<<12367>>, <<12368>>>>, <<<<12369>>, <<12370>>>>, <<<<12371>>, <<12372>>>>,
      <<<<12373>>, <<12374>>>>, <<<<12375>>, <<12376>>>>, <<<<12377>>, <<12378>>>>, <<<<12379>>, <<12380>>>>, <<<<12381>>, <<12382>>>>,
      <<<<12383>>, <<12384>>>>, <<<<12385>>, <<12386>>>>, <<<<12388>>, <<12389>>>>, <<<<12390>>, <<12391>>>>, <<<<12392>>, <<12393>>>>,
      <<<<12399>>, <<12400>>>>, <<<<12402>>, <<12403>>>>, <<<<12405>>, <<12406>>>>, <<<<12408>>, <<12409>>>>, <<<<12411>>, <<12412>>>>,
      <<<<12399>>, <<12401>>>>, <<<<12402>>, <<12404>>>>, <<<<12405>>, <<12407>>>>, <<<<12408>>, <<12410>>>>, <<<<12411>>, <<12413>>>>,
      <<<<12400>>, <<12401>>>>, <<<<12403>>, <<12404>>>>, <<<<12406>>, <<12407>>>>, <<<<12409>>, <<12410>>>>, <<<<12412>>, <<12413>>>>
    >>

_voicing_rules ==
    _create_substitution_rules(voicing_pairs, "voicing", COST_RARE_VARIANT, COST_RARE_VARIANT)

ALL_RULES ==
    <<SubstitutionRule("particle_ha_to_wa", COST_EQUIVALENT, <<12399>>, <<12431>>, {12431}),
      SubstitutionRule("particle_he_to_e", COST_EQUIVALENT, <<12408>>, <<12360>>, {12360}),
      SubstitutionRule("particle_wo_to_o", COST_EQUIVALENT, <<12434>>, <<12362>>, {12362})>>
    \o _create_substitution_rules(<<<<<<12389>>, <<12378>>>>, <<<<12386>>, <<12376>>>>>>,
                                  "homophone", COST_EQUIVALENT, COST_EQUIVALENT)
    \o _long_vowel_rules
    \o _create_substitution_rules(
           <<<<<<12391, 12355>>, <<12386>>>>, <<<<12391, 12421>>, <<12389>>>>>>,
           "special_reading", COST_EQUIVALENT, COST_EQUIVALENT)
    \o <<FuncRule("long_vowel_expand", COST_EQUIVALENT, {12354, 12356, 12358, 12360, 12362})>>
    \o <<SubstitutionRule("sokuon_omission", COST_COMMON_VARIANT, <<Ch.htsu>>, <<>>, {}),
         SubstitutionRule("sokuon_to_tsu", COST_COMMON_VARIANT, <<Ch.htsu>>, <<12388>>, {12388}),
         SubstitutionRule("hatsuon_omission", COST_COMMON_VARIANT, <<Ch.hn>>, <<>>, {})>>
    \o _kana_variation_rules
    \o <<SubstitutionRule("long_vowel_omission", COST_RARE_VARIANT, <<Ch.long>>, <<>>, {})>>
    \o _voicing_rules

(***************************************************************************)
(* _logic.py: variants, kana synchronisation, dictionary reading           *)
(***************************************************************************)
\* the texts (keys) of a list of variants
VariantTexts(variants) == {variants[i].text : i \in 1..Len(variants)}

RECURSIVE apply_rule_rule_cost(_, _, _, _, _, _)
\* apply_rule with the cost of the rule alone in place of the accumulated cost
apply_rule_rule_cost(rule, variants, k, new_variants, tokens, current_token) ==
    IF k > Len(variants) THEN new_variants
    ELSE LET v == variants[k]
             new_text == IF rule.rule_type = SUBSTITUTION
                         THEN Replace(v.text, rule.frm, rule.to)
                         ELSE _handle_long_vowel(v.text, tokens, current_token)
             produced == IF rule.rule_type = SUBSTITUTION
                         THEN Contains(v.text, rule.frm)
                         ELSE new_text # v.text
             fresh == /\ new_text \notin VariantTexts(variants)
                      /\ new_text \notin VariantTexts(new_variants)
         IN  apply_rule_rule_cost(rule, variants, k + 1,
                                  IF produced /\ fresh
                                  THEN Append(new_variants,
                                              [text |-> new_text, cost |-> rule.cost,
                                               reasons |-> Append(v.reasons, rule.name)])
                                  ELSE new_variants,
                                  tokens, current_token)

RECURSIVE apply_rule(_, _, _, _, _, _)
\* the inner loop over variants.items() from entry k on: the new_variants of one rule
apply_rule(rule, variants, k, new_variants, tokens, current_token) ==
    IF k > Len(variants) THEN new_variants
    ELSE LET v == variants[k]
             new_text == IF rule.rule_type = SUBSTITUTION
                         THEN Replace(v.text, rule.frm, rule.to)
                         ELSE _handle_long_vowel(v.text, tokens, current_token)
             produced == IF rule.rule_type = SUBSTITUTION
                         THEN Contains(v.text, rule.frm)
                         ELSE new_text # v.text
             fresh == /\ new_text \notin VariantTexts(variants)
                      /\ new_text \notin VariantTexts(new_variants)
         IN  apply_rule(rule, variants, k + 1,
                        IF produced /\ fresh
                        THEN Append(new_variants,
                                    [text |-> new_text, cost |-> v.cost + rule.cost,
                                     reasons |-> Append(v.reasons, rule.name)])
                        ELSE new_variants,
                        tokens, current_token)

RECURSIVE apply_rules(_, _, _, _)
\* for rule in applicable_rules: variants.update(new_variants)
apply_rules(rules, variants, tokens, current_token) ==
    IF rules = <<>> THEN variants
    ELSE apply_rules(Tail(rules),
                     variants \o apply_rule(Head(rules), variants, 1, <<>>, tokens, current_token),
                     tokens, current_token)

RECURSIVE MaxCost(_)
MaxCost(variants) ==
    IF variants = <<>> THEN 0 ELSE Max2(Head(variants).cost, MaxCost(Tail(variants)))

RECURSIVE SortByCostFrom(_, _, _)
\* sorted(result, key=cost): stable, so entries of one cost keep their order
SortByCostFrom(variants, c, top) ==
    IF c > top THEN <<>>
    ELSE SelectSeq(variants, LAMBDA v : v.cost = c) \o SortByCostFrom(variants, c + 1, top)

SortByCost(variants) == SortByCostFrom(variants, 0, MaxCost(variants))

\* the rules the pre-filter keeps for a target string
applicable_rules(hira_for_match) ==
    LET target_chars == CharSet(hira_for_match)
    IN  SelectSeq(ALL_RULES,
                  LAMBDA rule : \/ rule.introduced_chars = {}
                                \/ rule.introduced_chars \cap target_chars # {})

\* the variants of base_anchor under a list of rules, sorted by cost
variants_under(rules, base_anchor, tokens, current_token) ==
    SortByCost(apply_rules(rules, <<[text |-> base_anchor, cost |-> 0, reasons |-> <<>>]>>,
                           tokens, current_token))

_generate_variants(base_anchor, tokens, current_token, hira_for_match) ==
    variants_under(applicable_rules(hira_for_match), base_anchor, tokens, current_token)

RECURSIVE FirstMatching(_, _, _)
\* the first variant that hira_for_match starts with at idx, as a list of 0 or 1
FirstMatching(variants, hira_for_match, idx) ==
    IF variants = <<>> THEN <<>>
    ELSE IF StartsWithAt(hira_for_match, Head(variants).text, idx) THEN <<Head(variants)>>
    ELSE FirstMatching(Tail(variants), hira_for_match, idx)

\* _handle_kana_token advancing by the length of the anchor, not of the variant
_handle_kana_token_anchor_len(token, hira_for_match, hira_match_idx, tokens) ==
    LET anchor_hira == NoSpace(katakana_to_hiragana(token.text))
        variants == _generate_variants(anchor_hira, tokens, token,
                                       From(hira_for_match, hira_match_idx))
        hit == FirstMatching(variants, hira_for_match, hira_match_idx)
    IN  IF hit # <<>> THEN hira_match_idx + Len(anchor_hira) ELSE hira_match_idx

\* _handle_kana_token: the hiragana cursor after the token
_handle_kana_token(token, hira_for_match, hira_match_idx, tokens) ==
    LET anchor_hira == NoSpace(katakana_to_hiragana(token.text))
        variants == _generate_variants(anchor_hira, tokens, token,
                                       From(hira_for_match, hira_match_idx))
        hit == FirstMatching(variants, hira_for_match, hira_match_idx)
    IN  IF hit # <<>> THEN hira_match_idx + Len(hit[1].text) ELSE hira_match_idx

\* tokens[i] is the kana of a KANJI "(" kana ")" pattern (i is 0-based)
is_in_parens(token_stream, i) ==
    /\ i > 1
    /\ At(token_stream, i - 2).char_type = KANJI
    /\ At(token_stream, i - 1).text = <<Ch.lpar>>
    /\ i + 1 < Len(token_stream)
    /\ At(token_stream, i + 1).text = <<Ch.rpar>>

RECURSIVE _find_next_anchor(_, _)
\* the next kana token that is not a parenthesised hint: a list of 0 (None) or 1
_find_next_anchor(start_idx, token_stream) ==
    IF start_idx >= Len(token_stream) THEN <<>>
    ELSE IF /\ IsKana(At(token_stream, start_idx).char_type)
            /\ ~is_in_parens(token_stream, start_idx)
         THEN <<At(token_stream, start_idx)>>
         ELSE _find_next_anchor(start_idx + 1, token_stream)

RECURSIVE SortByLenDesc(_)
\* list.sort(key=len, reverse=True): stable
SortByLenDesc(s) ==
    IF s = <<>> THEN <<>>
    ELSE LET top == CHOOSE i \in 1..Len(s) :
                        /\ \A j \in 1..Len(s) : Len(s[i]) >= Len(s[j])
                        /\ \A j \in 1..(i - 1) : Len(s[j]) < Len(s[i])
         IN  <<s[top]>> \o SortByLenDesc(SubSeq(s, 1, top - 1) \o SubSeq(s, top + 1, Len(s)))

\* _select_best_reading with the first prefix reading in place of the longest
_select_best_reading_first(readings, hira_for_match, next_anchor) ==
    LET possible_matches == SelectSeq(readings, LAMBDA r : StartsWith(hira_for_match, r))
        reading == possible_matches[1]
        anchor_hira == katakana_to_hiragana(next_anchor[1].text)
    IN  IF possible_matches = <<>> THEN <<>>
        ELSE IF next_anchor # <<>> /\ EndsWith(reading, anchor_hira) /\ reading # anchor_hira
             THEN <<[reading |-> Slice(reading, 0, Len(reading) - Len(anchor_hira)),
                     hira_consumed |-> Len(reading)]>>
             ELSE <<[reading |-> reading, hira_consumed |-> Len(reading)]>>

\* _select_best_reading: None is <<>>, a result is <<[reading, hira_consumed]>>;
\* the loop over possible_matches returns in its first iteration
_select_best_reading(readings, hira_for_match, next_anchor) ==
    LET possible_matches ==
            SortByLenDesc(SelectSeq(readings, LAMBDA r : StartsWith(hira_for_match, r)))
        reading == possible_matches[1]
        anchor_hira == katakana_to_hiragana(next_anchor[1].text)
    IN  IF possible_matches = <<>> THEN <<>>
        ELSE IF next_anchor # <<>> /\ EndsWith(reading, anchor_hira) /\ reading # anchor_hira
             THEN <<[reading |-> Slice(reading, 0, Len(reading) - Len(anchor_hira)),
                     hira_consumed |-> Len(reading)]>>
             ELSE <<[reading |-> reading, hira_consumed |-> Len(reading)]>>

(***************************************************************************)
(* _logic.py: _handle_kanji_block                                          *)
(***************************************************************************)
RATIO_LIMIT == 5          \* len(ruby) / punctuated_len > 5.0
WINDOW_FACTOR == 5        \* search_window = punctuated_len * 5 + 10
WINDOW_BASE == 10
SKIP_PENALTY == 100       \* score = skipped_tokens * 100
RATIO_PENALTY == 50       \* ratio > 5.0 or ratio < 0.25
NO_RUBY_PENALTY == 10     \* ruby_len == 0
LOOKAHEAD == 100          \* hira_window = hira_for_match[hira_idx : hira_idx + 100]

\* a span (start, end, ruby)
Span(start, end, ruby) == <<start, end, ruby>>

\* all(t.char_type == OTHER and all(is_latin(c) or c.isspace() for c in t.text))
is_latin_block(block) ==
    \A i \in 1..Len(block) :
        /\ block[i].char_type = OTHER_TYPE
        /\ \A j \in 1..Len(block[i].text) :
               is_latin(<<block[i].text[j]>>) \/ IsSpace(block[i].text[j])

\* the number of characters of the block that take part in the annotation
punctuated_len_of(block) ==
    SumSeq([i \in 1..Len(block) |->
               IF \/ block[i].char_type = KANJI
                  \/ (block[i].char_type = OTHER_TYPE /\ Strip(block[i].text) # <<>>)
               THEN Len(block[i].text) ELSE 0])

\* full_token_stream.index(last_token_in_block) + 1, or len(full_token_stream)
start_search_idx_of(block, full_token_stream) ==
    LET last_token_in_block == block[Len(block)]
        hits == {i \in 1..Len(full_token_stream) : full_token_stream[i] = last_token_in_block}
    IN  IF hits = {} THEN Len(full_token_stream)
        ELSE CHOOSE i \in hits : \A j \in hits : i <= j

RECURSIVE GroupEnd(_, _, _)
\* the index after the run of tokens of group group_id that holds index idx - 1
GroupEnd(token_stream, idx, group_id) ==
    IF idx < Len(token_stream) /\ At(token_stream, idx).group_id = group_id
    THEN GroupEnd(token_stream, idx + 1, group_id)
    ELSE idx

\* a kana token as anchor: its variants
kana_anchor(full_token_stream, cursor, hira_for_match, potential_anchor_token, original_anchor_text) ==
    [cursor |-> cursor + 1,
     variants_with_cost |-> _generate_variants(original_anchor_text, full_token_stream,
                                               potential_anchor_token, hira_for_match),
     original_anchor_text |-> original_anchor_text]

\* a dictionary group as anchor: its readings at cost 0
group_anchor(end_of_group_idx, grouped_text, readings) ==
    [cursor |-> end_of_group_idx,
     variants_with_cost |->
         [i \in 1..Len(readings) |->
             [text |-> readings[i], cost |-> 0, reasons |-> <<"dict_match">>]],
     original_anchor_text |-> IF readings # <<>> THEN grouped_text ELSE <<>>]

\* the group that starts at cursor, from the index after it
group_anchor_at(full_token_stream, cursor, end_of_group_idx) ==
    group_anchor(end_of_group_idx,
                 JoinText(Slice(full_token_stream, cursor, end_of_group_idx)),
                 find_word(JP_VOCAB_TRIE,
                           JoinText(Slice(full_token_stream, cursor, end_of_group_idx))))

\* One iteration of the anchor scan at cursor: the cursor after it, the variants
\* the token (or its group) offers, and the anchor's own text.
anchor_of(full_token_stream, cursor, hira_for_match, potential_anchor_token) ==
    IF IsKana(potential_anchor_token.char_type)
    THEN kana_anchor(full_token_stream, cursor, hira_for_match, potential_anchor_token,
                     katakana_to_hiragana(potential_anchor_token.text))
    ELSE IF potential_anchor_token.group_id # NoGroup
    THEN group_anchor_at(full_token_stream, cursor,
                         GroupEnd(full_token_stream, cursor + 1,
                                  potential_anchor_token.group_id))
    ELSE [cursor |-> cursor + 1, variants_with_cost |-> <<>>, original_anchor_text |-> <<>>]

anchor_at(full_token_stream, cursor, hira_for_match) ==
    anchor_of(full_token_stream, cursor, hira_for_match, At(full_token_stream, cursor))

RECURSIVE occurrences(_, _, _, _), occurrences_from(_, _, _, _)
\* the positions the inner while loop visits: find(fuzzy_text, search_pos,
\* search_pos + search_window), then search_pos = pos + 1
occurrences(hira_for_match, fuzzy_text, search_pos, search_window) ==
    occurrences_from(hira_for_match, fuzzy_text, search_window,
                     Find(hira_for_match, fuzzy_text, search_pos, search_pos + search_window))

\* if pos == -1: break; ...; search_pos = pos + 1
occurrences_from(hira_for_match, fuzzy_text, search_window, pos) ==
    IF pos = -1 THEN <<>>
    ELSE <<pos>> \o occurrences(hira_for_match, fuzzy_text, pos + 1, search_window)

\* the length-ratio penalty, times punctuated_len (times 1 when that is 0)
ratio_penalty_scaled(ruby_len, punctuated_len) ==
    IF punctuated_len > 0 /\ ruby_len > 0
    THEN IF \/ ruby_len > RATIO_LIMIT * punctuated_len          \* ratio > 5.0
            \/ 4 * ruby_len < punctuated_len                    \* ratio < 0.25
         THEN RATIO_PENALTY * punctuated_len
         ELSE (IF ruby_len >= 2 * punctuated_len                \* abs(ratio - 2.0) * 5
               THEN ruby_len - 2 * punctuated_len
               ELSE 2 * punctuated_len - ruby_len) * 5
    ELSE IF ruby_len = 0 /\ punctuated_len > 0 THEN NO_RUBY_PENALTY * punctuated_len
    ELSE 0

\* the score of a candidate, times 100 * punctuated_len (100 when that is 0), which
\* makes it an integer; scores are only compared within one block
score_scaled(skipped_tokens, cost, pos, punctuated_len) ==
    LET unit == IF punctuated_len > 0 THEN punctuated_len ELSE 1
    IN  100 * unit * (skipped_tokens * SKIP_PENALTY + cost)
        + 100 * ratio_penalty_scaled(pos, punctuated_len)
        + unit * pos                                             \* pos * 0.01

\* the candidates of one variant v: one for each occurrence
variant_candidates(v, occ, skipped_tokens, punctuated_len, original_anchor_text) ==
    [i \in 1..Len(occ) |->
        [pos |-> occ[i], cost |-> v.cost, fuzzy_text |-> v.text,
         score |-> score_scaled(skipped_tokens, v.cost, occ[i], punctuated_len),
         original_anchor_text |-> original_anchor_text]]

\* the candidates of one anchor in the order the loops evaluate them
RECURSIVE anchor_candidates(_, _, _, _, _, _)
anchor_candidates(variants_with_cost, hira_for_match, search_window, skipped_tokens, punctuated_len, original_anchor_text) ==
    IF variants_with_cost = <<>> THEN <<>>
    ELSE variant_candidates(Head(variants_with_cost),
                            occurrences(hira_for_match, Head(variants_with_cost).text, 0,
                                        search_window),
                            skipped_tokens, punctuated_len, original_anchor_text)
         \o anchor_candidates(Tail(variants_with_cost), hira_for_match, search_window,
                              skipped_tokens, punctuated_len, original_anchor_text)

RECURSIVE best_of(_, _)
\* "if best is None or score < best.score": the first candidate of least score,
\* starting from best (a list of 0 or 1)
best_of(best, candidates) ==
    IF candidates = <<>> THEN best
    ELSE best_of(IF best = <<>> \/ Head(candidates).score < best[1].score
                 THEN <<Head(candidates)>> ELSE best,
                 Tail(candidates))

\* the best candidate of the anchor a, a list of 0 or 1
anchor_best_match_of(a, start_search_idx, hira_for_match, search_window, punctuated_len) ==
    best_of(<<>>, anchor_candidates(a.variants_with_cost, hira_for_match, search_window,
                                    a.cursor - start_search_idx, punctuated_len,
                                    a.original_anchor_text))

RECURSIVE anchor_scan(_, _, _, _, _, _, _), anchor_scan_step(_, _, _, _, _, _, _)
\* the while loop over the tokens after the block
anchor_scan(full_token_stream, cursor, start_search_idx, hira_for_match, search_window, punctuated_len, overall_best_match) ==
    IF cursor >= Len(full_token_stream) THEN overall_best_match
    ELSE anchor_scan_step(full_token_stream, anchor_at(full_token_stream, cursor, hira_for_match),
                          start_search_idx, hira_for_match, search_window, punctuated_len,
                          overall_best_match)

\* one iteration, with the anchor a found at the cursor
anchor_scan_step(full_token_stream, a, start_search_idx, hira_for_match, search_window, punctuated_len, overall_best_match) ==
    anchor_scan(full_token_stream, a.cursor, start_search_idx, hira_for_match,
                search_window, punctuated_len,
                best_of(overall_best_match,
                        anchor_best_match_of(a, start_search_idx, hira_for_match,
                                             search_window, punctuated_len)))

\* next((t for t in reversed(block) if t.text.strip()), None): a list of 0 or 1
last_meaningful_token_of(block) ==
    LET hits == {i \in 1..Len(block) : Strip(block[i].text) # <<>>}
    IN  IF hits = {} THEN <<>> ELSE <<block[CHOOSE i \in hits : \A j \in hits : i >= j]>>

\* max(possible_readings, key=len): the first of the longest
FirstLongest(s) == SortByLenDesc(s)[1]

\* the plausibility check left out
ratio_never_too_large(ruby, punctuated_len) == FALSE

\* len(ruby) / punctuated_len > 5.0
ratio_too_large(ruby, punctuated_len) ==
    punctuated_len > 0 /\ Len(ruby) > RATIO_LIMIT * punctuated_len

\* step 2: a best split point was found
\* the geminate correction: a っ before the split point belongs to the anchor
found_pos_of(hira_for_match, best) ==
    IF /\ best.pos > 0
       /\ At(hira_for_match, best.pos - 1) = Ch.htsu
       /\ ~StartsWith(best.fuzzy_text, <<Ch.htsu>>)
       /\ StartsWith(best.original_anchor_text, <<Ch.htsu>>)
    THEN best.pos - 1 ELSE best.pos

\* the span of the block with the reading ruby, after the plausibility check
checked_span(block, punctuated_len, ruby, last_meaningful_token) ==
    IF ruby = <<>> THEN <<>>
    ELSE IF last_meaningful_token = <<>> THEN <<>>
    ELSE IF ratio_too_large(ruby, punctuated_len) THEN <<>>
    ELSE <<Span(block[1].start, last_meaningful_token[1].end, ruby)>>

\* step 2: a best split point was found
block_from_anchor(block, hira_for_match, punctuated_len, best) ==
    checked_span(block, punctuated_len,
                 Slice(hira_for_match, 0, found_pos_of(hira_for_match, best)),
                 last_meaningful_token_of(block))

\* possible_readings_of without the test for an occurrence in the target
possible_readings_unfiltered(readings, hira_for_match) == readings

\* step 3: no anchor anywhere ahead
\* [r for r in readings if r in hira_for_match]
possible_readings_of(readings, hira_for_match) ==
    SelectSeq(readings, LAMBDA r : Contains(hira_for_match, r))

\* the fallback once the dictionary readings that occur in the target are known
fallback_span(block, hira_for_match, punctuated_len, possible_readings, last_meaningful_token) ==
    IF possible_readings # <<>> /\ last_meaningful_token # <<>>
    THEN <<Span(block[1].start, last_meaningful_token[1].end,
                FirstLongest(possible_readings))>>
    ELSE checked_span(block, punctuated_len, hira_for_match, last_meaningful_token)

\* block_fallback with every reading of the block's text as a possible reading
block_fallback_any_reading(block, hira_for_match, punctuated_len) ==
    IF Strip(JoinText(block)) = <<>> THEN <<>>
    ELSE fallback_span(block, hira_for_match, punctuated_len,
                       find_word(JP_VOCAB_TRIE, Strip(JoinText(block))),
                       last_meaningful_token_of(block))

\* step 3: no anchor anywhere ahead
block_fallback(block, hira_for_match, punctuated_len) ==
    IF Strip(JoinText(block)) = <<>> THEN <<>>
    ELSE fallback_span(block, hira_for_match, punctuated_len,
                       possible_readings_of(find_word(JP_VOCAB_TRIE, Strip(JoinText(block))),
                                            hira_for_match),
                       last_meaningful_token_of(block))

\* search_window_of with the product of the two numbers
search_window_product(punctuated_len) == punctuated_len * WINDOW_FACTOR * WINDOW_BASE

\* search_window = punctuated_len * 5 + 10
search_window_of(punctuated_len) == punctuated_len * WINDOW_FACTOR + WINDOW_BASE

\* 1. the scan for the best anchor after the block, a list of 0 or 1
overall_best_match_of(hira_for_match, full_token_stream, punctuated_len, start_search_idx) ==
    anchor_scan(full_token_stream, start_search_idx, start_search_idx, hira_for_match,
                search_window_of(punctuated_len), punctuated_len, <<>>)

\* 2. and 3. once the scan has ended
block_result(block, hira_for_match, punctuated_len, overall_best_match) ==
    IF overall_best_match # <<>>
    THEN block_from_anchor(block, hira_for_match, punctuated_len, overall_best_match[1])
    ELSE block_fallback(block, hira_for_match, punctuated_len)

\* the block with its annotatable length
block_of_len(block, hira_for_match, full_token_stream, punctuated_len) ==
    block_result(block, hira_for_match, punctuated_len,
                 overall_best_match_of(hira_for_match, full_token_stream, punctuated_len,
                                       start_search_idx_of(block, full_token_stream)))

_handle_kanji_block(block, hira_for_match, full_token_stream) ==
    IF is_latin_block(block) THEN <<>>
    ELSE block_of_len(block, hira_for_match, full_token_stream, punctuated_len_of(block))

(***************************************************************************)
(* _logic.py: _align_and_generate_ruby_for_word                            *)
(***************************************************************************)
\* append_block with the span taken from the start of the line
append_block_from_line_start(res, tokens_of_block, ruby_text) ==
    IF tokens_of_block # <<>> /\ ruby_text # <<>>
    THEN Append(res, Span(0, tokens_of_block[Len(tokens_of_block)].end, ruby_text))
    ELSE res

\* results.append((block[0].start, block[-1].end, ruby_text)) unless it is empty
append_block(res, tokens_of_block, ruby_text) ==
    IF tokens_of_block # <<>> /\ ruby_text # <<>>
    THEN Append(res, Span(tokens_of_block[1].start,
                          tokens_of_block[Len(tokens_of_block)].end, ruby_text))
    ELSE res

\* the kanji and other tokens from token_idx on
remaining_kanji_tokens_of(grouped_tokens, token_idx) ==
    SelectSeq(From(grouped_tokens, token_idx), LAMBDA t : IsKanjiOrOther(t.char_type))

\* if reading.startswith(hira_anchor, reading_cursor): reading_cursor += len(hira_anchor)
skip_anchor(reading, hira_anchor, reading_cursor) ==
    IF StartsWithAt(reading, hira_anchor, reading_cursor)
    THEN reading_cursor + Len(hira_anchor) ELSE reading_cursor

RECURSIVE align_loop(_, _, _, _, _, _), align_kana(_, _, _, _, _, _, _, _)
\* the while loop over the tokens of the group, from token_idx (0-based) on
align_loop(grouped_tokens, reading, token_idx, reading_cursor, current_kanji_block, res) ==
    IF token_idx >= Len(grouped_tokens)
    THEN \* the kanji block at the end of the word, if any
         append_block(res, current_kanji_block, From(reading, reading_cursor))
    ELSE IF IsKanjiOrOther(At(grouped_tokens, token_idx).char_type)
    THEN align_loop(grouped_tokens, reading, token_idx + 1, reading_cursor,
                    Append(current_kanji_block, At(grouped_tokens, token_idx)), res)
    ELSE IF IsKana(At(grouped_tokens, token_idx).char_type)
    THEN align_kana(grouped_tokens, reading, token_idx, reading_cursor, current_kanji_block,
                    res, katakana_to_hiragana(At(grouped_tokens, token_idx).text),
                    Find(reading, katakana_to_hiragana(At(grouped_tokens, token_idx).text),
                         reading_cursor, Len(reading)))
    ELSE align_loop(grouped_tokens, reading, token_idx + 1, reading_cursor,
                    current_kanji_block, res)

\* a kana token of the group, with its position in the reading (-1: not found)
align_kana(grouped_tokens, reading, token_idx, reading_cursor, current_kanji_block, res, hira_anchor, anchor_pos_in_reading) ==
    IF current_kanji_block = <<>>
    THEN align_loop(grouped_tokens, reading, token_idx + 1,
                    skip_anchor(reading, hira_anchor, reading_cursor), <<>>, res)
    ELSE IF anchor_pos_in_reading # -1
    THEN \* 1. the kanji block before this kana, 2. skip the kana in the reading
         align_loop(grouped_tokens, reading, token_idx + 1,
                    skip_anchor(reading, hira_anchor, anchor_pos_in_reading), <<>>,
                    append_block(res, current_kanji_block,
                                 Slice(reading, reading_cursor, anchor_pos_in_reading)))
    ELSE \* the reading lacks the kana: the rest goes to the kanji left
         append_block(res, remaining_kanji_tokens_of(grouped_tokens, token_idx),
                      From(reading, reading_cursor))

_align_and_generate_ruby_for_word(grouped_tokens, reading) ==
    IF Len(grouped_tokens) = 1 /\ IsKanjiOrOther(grouped_tokens[1].char_type)
    THEN IF reading # <<>>
         THEN <<Span(grouped_tokens[1].start, grouped_tokens[1].end, reading)>>
         ELSE <<>>
    ELSE IF katakana_to_hiragana(JoinText(grouped_tokens)) = reading THEN <<>>
    ELSE align_loop(grouped_tokens, reading, 0, 0, <<>>, <<>>)

(***************************************************************************)
(* _logic.py: generate_ruby_for_chunk.  The state of its loop is           *)
(* [cursor, hira_idx, results]; chunk_step is one iteration.               *)
(***************************************************************************)
\* KANJI "(" kana ")" at cursor
is_annotated_kanji(token_stream, cursor) ==
    /\ At(token_stream, cursor).char_type = KANJI
    /\ cursor + 3 < Len(token_stream)
    /\ At(token_stream, cursor + 1).text = <<Ch.lpar>>
    /\ IsKana(At(token_stream, cursor + 2).char_type)
    /\ At(token_stream, cursor + 3).text = <<Ch.rpar>>

\* a group whose readings occur in the 100 characters after the hiragana cursor
any_reading_in(readings, hira_window) ==
    \E i \in 1..Len(readings) : Contains(hira_window, readings[i])

is_true_anchor(token_stream, idx, hira_for_match, hira_idx) ==
    any_reading_in(
        find_word(JP_VOCAB_TRIE,
                  JoinText(Slice(token_stream, idx,
                                 GroupEnd(token_stream, idx + 1,
                                          At(token_stream, idx).group_id)))),
        Slice(hira_for_match, hira_idx, hira_idx + LOOKAHEAD))

RECURSIVE block_end(_, _, _, _)
\* the while loop that grows the block: the index of its last token
block_end(token_stream, block_end_idx, hira_for_match, hira_idx) ==
    IF block_end_idx + 1 >= Len(token_stream) THEN block_end_idx
    ELSE IF ~IsKanjiOrOther(At(token_stream, block_end_idx + 1).char_type) THEN block_end_idx
    ELSE IF /\ At(token_stream, block_end_idx + 1).group_id # NoGroup
            /\ is_true_anchor(token_stream, block_end_idx + 1, hira_for_match, hira_idx)
         THEN block_end_idx
    ELSE block_end(token_stream, block_end_idx + 1, hira_for_match, hira_idx)

\* the state after a span for the kanji token with the reading ruby
annotated_state(st, kanji_token, ruby, consumed_tokens) ==
    [cursor |-> st.cursor + consumed_tokens, hira_idx |-> st.hira_idx + Len(ruby),
     results |-> Append(st.results, Span(kanji_token.start, kanji_token.end, ruby))]

\* the pattern with the hint and the okurigana ("" when there is none) in hiragana
annotated_with(hira_for_match, st, kanji_token, hint_hira, has_okurigana, okurigana_hira) ==
    IF /\ has_okurigana
       /\ StartsWithAt(hira_for_match, hint_hira, st.hira_idx)
       /\ StartsWithAt(hira_for_match, okurigana_hira, st.hira_idx + Len(hint_hira))
    THEN <<annotated_state(st, kanji_token,
                           Slice(hira_for_match, st.hira_idx,
                                 st.hira_idx + Len(hint_hira) + Len(okurigana_hira)), 5)>>
    ELSE IF StartsWithAt(hira_for_match, hint_hira, st.hira_idx)
    THEN <<annotated_state(st, kanji_token, hint_hira, 4)>>
    ELSE <<>>

\* has_okurigana_at without the look at the token behind the parenthesis
has_okurigana_at_never(token_stream, cursor) == FALSE

\* cursor + 4 < len(token_stream) and token_stream[cursor + 4] is kana
has_okurigana_at(token_stream, cursor) ==
    cursor + 4 < Len(token_stream) /\ IsKana(At(token_stream, cursor + 4).char_type)

\* 1. the pre-annotated pattern: a list of 0 (no match) or 1 next state
step_annotated(token_stream, hira_for_match, st) ==
    annotated_with(hira_for_match, st, At(token_stream, st.cursor),
                   katakana_to_hiragana(At(token_stream, st.cursor + 2).text),
                   has_okurigana_at(token_stream, st.cursor),
                   IF has_okurigana_at(token_stream, st.cursor)
                   THEN katakana_to_hiragana(At(token_stream, st.cursor + 4).text)
                   ELSE <<>>)

\* dictionary_state with the cursor advanced by the length of the emitted reading
dictionary_state_emitted(st, next_idx, grouped_tokens, best_match) ==
    IF best_match = <<>> THEN <<>>
    ELSE <<[cursor |-> next_idx,
            hira_idx |-> st.hira_idx + Len(best_match[1].reading),
            results |-> st.results
                        \o _align_and_generate_ruby_for_word(grouped_tokens,
                                                             best_match[1].reading)]>>

\* the state after the dictionary reading best_match (a list of 0 or 1) of the group
dictionary_state(st, next_idx, grouped_tokens, best_match) ==
    IF best_match = <<>> THEN <<>>
    ELSE <<[cursor |-> next_idx,
            hira_idx |-> st.hira_idx + best_match[1].hira_consumed,
            results |-> st.results
                        \o _align_and_generate_ruby_for_word(grouped_tokens,
                                                             best_match[1].reading)]>>

\* the group with its readings
dictionary_with(token_stream, hira_for_match, st, next_idx, grouped_tokens, readings) ==
    IF readings = <<>> THEN <<>>
    ELSE dictionary_state(st, next_idx, grouped_tokens,
                          _select_best_reading(readings, From(hira_for_match, st.hira_idx),
                                               _find_next_anchor(next_idx, token_stream)))

\* the group that starts at the cursor and ends before next_idx
dictionary_group(token_stream, hira_for_match, st, next_idx) ==
    dictionary_with(token_stream, hira_for_match, st, next_idx,
                    Slice(token_stream, st.cursor, next_idx),
                    find_word(JP_VOCAB_TRIE, JoinText(Slice(token_stream, st.cursor, next_idx))))

\* 3. dictionary first: a list of 0 (not applicable) or 1 next state
step_dictionary(token_stream, hira_for_match, st) ==
    IF At(token_stream, st.cursor).group_id = NoGroup THEN <<>>
    ELSE dictionary_group(token_stream, hira_for_match, st,
                          GroupEnd(token_stream, st.cursor + 1,
                                   At(token_stream, st.cursor).group_id))

\* the readings of a list of spans: sum(len(res[2]) for res in block_results)
ruby_len_of(spans) == SumSeq([i \in 1..Len(spans) |-> Len(spans[i][3])])

\* block_state with the hiragana cursor set to, not advanced by, the length
block_state_set(st, block_end_idx, block_results) ==
    [cursor |-> block_end_idx + 1,
     hira_idx |-> ruby_len_of(block_results),
     results |-> st.results \o block_results]

\* the state after the block that ends at block_end_idx got block_results
block_state(st, block_end_idx, block_results) ==
    [cursor |-> block_end_idx + 1,
     hira_idx |-> st.hira_idx + ruby_len_of(block_results),
     results |-> st.results \o block_results]

\* the block from the cursor to block_end_idx
block_upto(token_stream, hira_for_match, st, block_end_idx) ==
    block_state(st, block_end_idx,
                _handle_kanji_block(Slice(token_stream, st.cursor, block_end_idx + 1),
                                    From(hira_for_match, st.hira_idx), token_stream))

\* 4. anchor matching on the block that starts at cursor
step_block(token_stream, hira_for_match, st) ==
    block_upto(token_stream, hira_for_match, st,
               block_end(token_stream, st.cursor, hira_for_match, st.hira_idx))

\* 3. and 4.: the dictionary reading if there is one, else the block
dictionary_or_block(token_stream, hira_for_match, st, dictionary) ==
    IF dictionary # <<>> THEN dictionary[1]
    ELSE step_block(token_stream, hira_for_match, st)

\* 2. to 4.: the dispatch on the current token
dispatch(token_stream, hira_for_match, st, current_token) ==
    IF IsKana(current_token.char_type)
    THEN [st EXCEPT !.cursor = st.cursor + 1,
                    !.hira_idx = _handle_kana_token(current_token, hira_for_match,
                                                    st.hira_idx, token_stream)]
    ELSE IF current_token.char_type = SYMBOL \/ Strip(current_token.text) = <<>>
    THEN [st EXCEPT !.cursor = st.cursor + 1]
    ELSE dictionary_or_block(token_stream, hira_for_match, st,
                             step_dictionary(token_stream, hira_for_match, st))

\* 1.: the pre-annotation if it matched, else the dispatch
annotated_or_dispatch(token_stream, hira_for_match, st, annotated) ==
    IF annotated # <<>> THEN annotated[1]
    ELSE dispatch(token_stream, hira_for_match, st, At(token_stream, st.cursor))

\* one iteration of the while loop, for st.cursor < len(token_stream)
chunk_step(token_stream, hira_for_match, st) ==
    annotated_or_dispatch(token_stream, hira_for_match, st,
                          IF is_annotated_kanji(token_stream, st.cursor)
                          THEN step_annotated(token_stream, hira_for_match, st)
                          ELSE <<>>)

RECURSIVE chunk_loop(_, _, _)
chunk_loop(token_stream, hira_for_match, st) ==
    IF st.cursor >= Len(token_stream) THEN st
    ELSE chunk_loop(token_stream, hira_for_match, chunk_step(token_stream, hira_for_match, st))

generate_ruby_for_chunk(tokens, hira_for_match) ==
    chunk_loop(tokens, hira_for_match, [cursor |-> 0, hira_idx |-> 0, results |-> <<>>]).results

(***************************************************************************)
(* _logic.py: process_line                                                 *)
(***************************************************************************)
RECURSIVE SkipSpace(_, _)
\* the index after the whitespace that starts at index p: the \s* of a pattern
SkipSpace(text, p) == IF p < Len(text) /\ IsSpace(At(text, p)) THEN SkipSpace(text, p + 1) ELSE p

RECURSIVE MatchEnd(_, _, _)
\* the end of the match of c1 \s* c2 \s* ... cn (re.IGNORECASE) that starts at
\* index p, or -1; no pattern character is whitespace
MatchEnd(text, chars, p) ==
    IF chars = <<>> THEN p
    ELSE IF p < Len(text) /\ Lower(At(text, p)) = Lower(Head(chars))
         THEN IF Len(chars) = 1 THEN p + 1
              ELSE MatchEnd(text, Tail(chars), SkipSpace(text, p + 1))
         ELSE -1

\* re.subn(pattern, PLACEHOLDER, text, count=1): a list of 0 (count == 0) or 1 text
\* the least element of a non-empty set of numbers
MinOf(S) == CHOOSE p \in S : \A q \in S : p <= q

\* the text with the match that starts at p0 replaced
replace_match(text, chars, p0) ==
    Slice(text, 0, p0) \o PLACEHOLDER \o From(text, MatchEnd(text, chars, p0))

\* the replacement of the leftmost of the matches that start at hits
replace_leftmost(text, chars, hits) ==
    IF hits = {} THEN <<>> ELSE <<replace_match(text, chars, MinOf(hits))>>

subn_first(text, chars) ==
    replace_leftmost(text, chars,
                     {p \in 0..(Len(text) - 1) : MatchEnd(text, chars, p) # -1})

\* the characters of the pattern a token is searched with
pattern_chars(token) ==
    IF token.char_type = SYMBOL THEN token.text
    ELSE SelectSeq(token.text, LAMBDA c : c # Ch.sp)       \* token.text.replace(" ", "")

\* a SYMBOL or OTHER token that is not blank
is_divider_candidate(token) ==
    token.char_type \in {SYMBOL, OTHER_TYPE} /\ Strip(token.text) # <<>>

RECURSIVE find_dividers(_, _, _, _), divide_at(_, _, _, _, _)
\* the first loop: the romanization with placeholders, and dividing_token_indices
find_dividers(tokens, k, processed_roma, dividing_token_indices) ==
    IF k > Len(tokens)
    THEN [processed_roma |-> processed_roma, dividing_token_indices |-> dividing_token_indices]
    ELSE IF is_divider_candidate(tokens[k])
    THEN divide_at(tokens, k, processed_roma, dividing_token_indices,
                   subn_first(processed_roma, pattern_chars(tokens[k])))
    ELSE find_dividers(tokens, k + 1, processed_roma, dividing_token_indices)

\* token k after its pattern was searched: new_roma is a list of 0 or 1 text
divide_at(tokens, k, processed_roma, dividing_token_indices, new_roma) ==
    IF new_roma # <<>>
    THEN find_dividers(tokens, k + 1, new_roma[1],
                       dividing_token_indices \cup {tokens[k].start})
    ELSE find_dividers(tokens, k + 1, processed_roma, dividing_token_indices)

RECURSIVE SplitOn(_, _), SplitAt(_, _, _)
\* s.split(sep) for a one-character separator
SplitOn(s, sep) == SplitAt(s, sep, Find(s, sep, 0, Len(s)))

\* the split with the first separator at index p (-1: none)
SplitAt(s, sep, p) ==
    IF p = -1 THEN <<s>>
    ELSE <<Slice(s, 0, p)>> \o SplitOn(From(s, p + Len(sep)), sep)

\* [chunk for chunk in hira_from_roma_raw.split(PLACEHOLDER) if chunk.strip()]
hira_chunks_of(hira_from_roma_raw) ==
    SelectSeq(SplitOn(hira_from_roma_raw, PLACEHOLDER), LAMBDA chunk : Strip(chunk) # <<>>)

RECURSIVE token_chunks_loop(_, _, _, _)
\* the token list cut at the dividers; a divider belongs to no chunk
token_chunks_loop(tokens, dividing_token_indices, current_chunk, token_chunks) ==
    IF tokens = <<>>
    THEN IF current_chunk # <<>> THEN Append(token_chunks, current_chunk) ELSE token_chunks
    ELSE IF Head(tokens).start \in dividing_token_indices
         THEN token_chunks_loop(Tail(tokens), dividing_token_indices, <<>>,
                                IF current_chunk # <<>>
                                THEN Append(token_chunks, current_chunk) ELSE token_chunks)
         ELSE token_chunks_loop(Tail(tokens), dividing_token_indices,
                                Append(current_chunk, Head(tokens)), token_chunks)

token_chunks_of(tokens, dividing_token_indices) ==
    token_chunks_loop(tokens, dividing_token_indices, <<>>, <<>>)

\* the fallback without the hiragana filter
process_whole_unfiltered(roma_text, tokens) ==
    generate_ruby_for_chunk(tokens, roma_to_hiragana(roma_text))

\* the fallback of a chunk count mismatch: the whole line as one chunk
process_whole(roma_text, tokens) ==
    generate_ruby_for_chunk(tokens, HiraganaOnly(roma_to_hiragana(roma_text)))

\* 3. every chunk on its own, the results concatenated
process_chunks(token_chunks, hira_chunks) ==
    Concat([i \in 1..Len(token_chunks) |->
               generate_ruby_for_chunk(token_chunks[i], HiraganaOnly(hira_chunks[i]))])

\* the fallback taken only when there are too many hiragana chunks
chunks_mismatch_surplus(hira_chunks, token_chunks) == Len(hira_chunks) > Len(token_chunks)

\* if len(hira_chunks) != len(token_chunks)
chunks_mismatch(hira_chunks, token_chunks) == Len(hira_chunks) # Len(token_chunks)

\* 2. the line with its two lists of chunks
process_chunked(roma_text, tokens, hira_chunks, token_chunks) ==
    IF chunks_mismatch(hira_chunks, token_chunks)
    THEN process_whole(roma_text, tokens)
    ELSE process_chunks(token_chunks, hira_chunks)

\* the line after the first loop, d being its outcome
process_divided(roma_text, tokens, d) ==
    process_chunked(roma_text, tokens,
                    hira_chunks_of(roma_to_hiragana(d.processed_roma)),
                    token_chunks_of(tokens, d.dividing_token_indices))

process_line(roma_text, tokens) ==
    process_divided(roma_text, tokens, find_dividers(tokens, 1, roma_text, {}))

\* hira_chunks[i] for i in range(len(token_chunks)) raises IndexError
chunk_lookup_raises(token_chunks, hira_chunks) ==
    \E i \in 0..(Len(token_chunks) - 1) : i >= Len(hira_chunks)

\* whether process_line ends in an exception instead of returning
chunked_raises(hira_chunks, token_chunks) ==
    /\ ~chunks_mismatch(hira_chunks, token_chunks)
    /\ chunk_lookup_raises(token_chunks, hira_chunks)

divided_raises(tokens, d) ==
    chunked_raises(hira_chunks_of(roma_to_hiragana(d.processed_roma)),
                   token_chunks_of(tokens, d.dividing_token_indices))

process_line_raises(roma_text, tokens) ==
    divided_raises(tokens, find_dividers(tokens, 1, roma_text, {}))

(***************************************************************************)
(* __init__.py: generate_ruby                                              *)
(***************************************************************************)
RECURSIVE RunOfSpaces(_, _)
\* the number of spaces that start at index p
RunOfSpaces(text, p) ==
    IF p < Len(text) /\ At(text, p) = Ch.sp THEN 1 + RunOfSpaces(text, p + 1) ELSE 0

RECURSIVE split_spaces(_, _, _, _), split_run(_, _, _, _, _), split_here(_, _, _)
\* re.split(r" {min,}", text) and the separators re.finditer finds: the segments
\* and the separators between them, scanning from index p with the segment so far
split_spaces(text, min, p, current) ==
    IF p >= Len(text) THEN [segments |-> <<current>>, seps |-> <<>>]
    ELSE split_run(text, min, p, current, RunOfSpaces(text, p))

\* the scan at index p, where run spaces start
split_run(text, min, p, current, run) ==
    IF run >= min
    THEN split_here(current, Slice(text, p, p + run), split_spaces(text, min, p + run, <<>>))
    ELSE split_spaces(text, min, p + Max2(run, 1),
                      current \o Slice(text, p, p + Max2(run, 1)))

\* a separator after the segment current, before the segments of rest
split_here(current, sep, rest) ==
    [segments |-> <<current>> \o rest.segments, seps |-> <<sep>> \o rest.seps]

ORIG_SEP_MIN == 1     \* r" +"
ROMA_SEP_MIN == 2     \* r" {2,}"

\* the spans of one segment in the coordinates of the original line
\* (orig_start, orig_end, ruby)
original_span(o, ruby) == Span(o[1], o[2], ruby)

segment_spans(mapper, segment_results, norm_offset) ==
    [j \in 1..Len(segment_results) |->
        original_span(to_original_indices(mapper, segment_results[j][1] + norm_offset,
                                          segment_results[j][2] + norm_offset),
                      segment_results[j][3])]

\* the offset without the length of the separator
next_offset_no_sep(norm_offset, orig_seg, orig_seps, i) == norm_offset + Len(orig_seg)

\* norm_offset += len(orig_seg); if i < len(orig_seps): norm_offset += len(orig_seps[i])
\* (i is 1-based here)
next_offset(norm_offset, orig_seg, orig_seps, i) ==
    norm_offset + Len(orig_seg) + (IF i <= Len(orig_seps) THEN Len(orig_seps[i]) ELSE 0)

RECURSIVE sentence_loop(_, _, _, _, _, _)
\* for i in range(len(orig_segments)), from segment i (1-based) on
sentence_loop(mapper, orig_segments, roma_segments, orig_seps, i, norm_offset) ==
    IF i > Len(orig_segments) THEN <<>>
    ELSE segment_spans(mapper,
                       process_line(roma_segments[i], _tokenize_orig_line(orig_segments[i])),
                       norm_offset)
         \o sentence_loop(mapper, orig_segments, roma_segments, orig_seps, i + 1,
                          next_offset(norm_offset, orig_segments[i], orig_seps, i))

\* the whole line as one unit
whole_line(mapper, orig_text, roma_text) ==
    segment_spans(mapper, process_line(roma_text, _tokenize_orig_line(orig_text)), 0)

\* if len(orig_segments) > 1 and len(orig_segments) == len(roma_segments)
split_applies(orig_segments, roma_segments) ==
    Len(orig_segments) > 1 /\ Len(orig_segments) = Len(roma_segments)

\* the line with the segments o of the original and r of the romanization
generate_split(mapper, roma_text, o, r) ==
    IF split_applies(o.segments, r.segments)
    THEN sentence_loop(mapper, o.segments, r.segments, o.seps, 1, 0)
    ELSE whole_line(mapper, mapper.normalized_text, roma_text)

\* the line after normalization, without the test for kanji
generate_normalized_unchecked(mapper, roma_text) ==
    IF Strip(roma_text) = <<>> THEN <<>>
    ELSE generate_split(mapper, roma_text,
                        split_spaces(mapper.normalized_text, ORIG_SEP_MIN, 0, <<>>),
                        split_spaces(roma_text, ROMA_SEP_MIN, 0, <<>>))

\* the line after normalization
generate_normalized(mapper, roma_text) ==
    IF ~contains_Kanji(mapper.normalized_text) THEN <<>>
    ELSE IF Strip(roma_text) = <<>> THEN <<>>
    ELSE generate_split(mapper, roma_text,
                        split_spaces(mapper.normalized_text, ORIG_SEP_MIN, 0, <<>>),
                        split_spaces(roma_text, ROMA_SEP_MIN, 0, <<>>))

generate_ruby(orig_line, roma_line) ==
    generate_normalized(IndexMapper(orig_line), normalize_NFKC(roma_line))

\* roma_segments[i] for i in range(len(orig_segments)) raises IndexError
segment_lookup_raises(orig_segments, roma_segments) ==
    \E i \in 0..(Len(orig_segments) - 1) : i >= Len(roma_segments)

split_raises(orig_text, roma_text, orig_segments, roma_segments) ==
    IF split_applies(orig_segments, roma_segments)
    THEN \/ segment_lookup_raises(orig_segments, roma_segments)
         \/ \E i \in 1..Min2(Len(orig_segments), Len(roma_segments)) :
               process_line_raises(roma_segments[i], _tokenize_orig_line(orig_segments[i]))
    ELSE process_line_raises(roma_text, _tokenize_orig_line(orig_text))

normalized_raises(orig_text, roma_text) ==
    IF ~contains_Kanji(orig_text) THEN FALSE
    ELSE IF Strip(roma_text) = <<>> THEN FALSE
    ELSE split_raises(orig_text, roma_text,
                      split_spaces(orig_text, ORIG_SEP_MIN, 0, <<>>).segments,
                      split_spaces(roma_text, ROMA_SEP_MIN, 0, <<>>).segments)

\* whether generate_ruby ends in an exception instead of returning a list
generate_ruby_raises(orig_line, roma_line) ==
    normalized_raises(normalize_NFKC(orig_line), normalize_NFKC(roma_line))

(***************************************************************************)
(* The calls.  Every behaviour is one choice of the inputs and of the      *)
(* dictionary, followed by a call of generate_ruby, or by a call of        *)
(* _tokenize_orig_line and then of process_line on its tokens.             *)
(***************************************************************************)
MaxOrigLen == 2       \* the enumerated original lines have at most this many characters
MaxRomaUnits == 2     \* the enumerated romanizations have at most this many units

RECURSIVE SeqsUpTo(_, _)
\* the sequences over S of length at most n
SeqsUpTo(S, n) ==
    IF n = 0 THEN {<<>>}
    ELSE LET shorter == SeqsUpTo(S, n - 1)
         IN  shorter \cup {Append(s, x) : s \in shorter, x \in S}

\* kanji, kana, a symbol and the space
OrigChars == {Ch.hei, Ch.sei, Ch.hka, Ch.comma, Ch.sp}

\* syllables, a bare n, a vowel, the symbol, and the two kinds of space runs
RomaUnits ==
    {<<Ch.k, Ch.a>>, <<Ch.n, Ch.a>>, <<Ch.n>>, <<Ch.comma>>, <<Ch.sp>>, <<Ch.sp, Ch.sp>>}

OrigLines == SeqsUpTo(OrigChars, MaxOrigLen)
RomaLines == {Concat(us) : us \in SeqsUpTo(RomaUnits, MaxRomaUnits)}

\* a dictionary with two readings for one kanji, one for another, a word of a
\* kanji and a kana, a word of a kana and a kanji, and a word of three kanji with
\* kana between them, one of whose readings lacks the kana
DictFixture ==
    << [word |-> <<Ch.hei>>, readings |-> << <<Ch.hka>>, <<Ch.hka, Ch.hna>> >>],
       [word |-> <<Ch.sei>>, readings |-> << <<Ch.hna>> >>],
       [word |-> <<Ch.hei, Ch.hka>>, readings |-> << <<Ch.hna, Ch.hka>> >>],
       [word |-> <<Ch.hka, Ch.hei>>, readings |-> << <<Ch.hka, Ch.hna>> >>],
       [word |-> <<Ch.hei, Ch.hka, Ch.sei, Ch.hna, Ch.hei>>,
        readings |-> << <<Ch.ha, Ch.ha>>, <<Ch.hka, Ch.hka, Ch.hna, Ch.hka>> >>],
       [word |-> <<Ch.sei, Ch.a>>, readings |-> << <<Ch.hna>> >>] >>

Dictionaries == {<<>>, DictFixture}

\* n times the syllable ka
RECURSIVE Kas(_)
Kas(n) == IF n = 0 THEN <<>> ELSE <<Ch.k, Ch.a>> \o Kas(n - 1)

\* lines longer than the enumerated ones: a character that normalizes to two, the
\* pre-annotated pattern, readings far longer than the block, sentences
ScenarioPairs ==
    { \* "㍻" with "ana" and with "kana"
      << <<Ch.heisei>>, <<Ch.a, Ch.n, Ch.a>> >>,
      << <<Ch.heisei>>, <<Ch.k, Ch.a, Ch.n, Ch.a>> >>,
      \* "平(か)" with "ka", "平(か)な" with "kana"
      << <<Ch.hei, Ch.lpar, Ch.hka, Ch.rpar>>, <<Ch.k, Ch.a>> >>,
      << <<Ch.hei, Ch.lpar, Ch.hka, Ch.rpar, Ch.hna>>, <<Ch.k, Ch.a, Ch.n, Ch.a>> >>,
      \* "平(かかかかかか)", "平" and "平な" with six times "ka" (and "na")
      << <<Ch.hei, Ch.lpar, Ch.hka, Ch.hka, Ch.hka, Ch.hka, Ch.hka, Ch.hka, Ch.rpar>>, Kas(6) >>,
      << <<Ch.hei>>, Kas(6) >>,
      << <<Ch.hei, Ch.hna>>, Kas(6) \o <<Ch.n, Ch.a>> >>,
      \* "平 成" with "ka  na", "平  成 平" with "ka  na  ka", "㍻ 平" with "kana  ka"
      << <<Ch.hei, Ch.sp, Ch.sei>>, <<Ch.k, Ch.a, Ch.sp, Ch.sp, Ch.n, Ch.a>> >>,
      << <<Ch.hei, Ch.sp, Ch.sp, Ch.sei, Ch.sp, Ch.hei>>,
         <<Ch.k, Ch.a, Ch.sp, Ch.sp, Ch.n, Ch.a, Ch.sp, Ch.sp, Ch.k, Ch.a>> >>,
      << <<Ch.heisei, Ch.sp, Ch.hei>>, <<Ch.k, Ch.a, Ch.n, Ch.a, Ch.sp, Ch.sp, Ch.k, Ch.a>> >>,
      \* "平a" with "na": a Latin token that divides the romanization
      << <<Ch.hei, Ch.a>>, <<Ch.n, Ch.a>> >>,
      \* "平っ" with "ka": a small tsu as anchor has an empty variant
      << <<Ch.hei, Ch.htsu>>, <<Ch.k, Ch.a>> >>,
      \* "平,成" with "aka" and with "ka,", "平 ," with "kana": chunks and sentences
      \* whose counts differ
      << <<Ch.hei, Ch.comma, Ch.sei>>, <<Ch.a, Ch.k, Ch.a>> >>,
      << <<Ch.hei, Ch.comma, Ch.sei>>, <<Ch.k, Ch.a, Ch.comma>> >>,
      << <<Ch.hei, Ch.sp, Ch.comma>>, <<Ch.k, Ch.a, Ch.n, Ch.a>> >>,
      \* "成平か" with "nanaka": a dictionary word of two tokens after another word
      << <<Ch.sei, Ch.hei, Ch.hka>>, <<Ch.n, Ch.a, Ch.n, Ch.a, Ch.k, Ch.a>> >>,
      \* "平y" with "my": a Latin token whose removal leaves an m before the placeholder
      << <<Ch.hei, Ch.y>>, <<Ch.m, Ch.y>> >>,
      \* "平" with "n'a", "a'a", "a' " and "N'a": apostrophes
      << <<Ch.hei>>, <<Ch.n, Ch.apos, Ch.a>> >>,
      << <<Ch.hei>>, <<Ch.a, Ch.apos, Ch.a>> >>,
      << <<Ch.hei>>, <<Ch.a, Ch.apos, Ch.sp>> >>,
      << <<Ch.hei>>, <<Ch.N_up, Ch.apos, Ch.a>> >>,
      \* "平" and 14 times "か" with 16 times "ka", "平な" with 16 times "ka" and "na":
      \* anchors that occur beyond the search window of the block
      << <<Ch.hei>> \o [i \in 1..14 |-> Ch.hka], Kas(16) >>,
      << <<Ch.hei, Ch.hna>>, Kas(16) \o <<Ch.n, Ch.a>> >>,
      \* "々" with "ka", "平か成" with "nakana"
      << <<Ch.noma>>, <<Ch.k, Ch.a>> >>,
      << <<Ch.hei, Ch.hka, Ch.sei>>, <<Ch.n, Ch.a, Ch.k, Ch.a, Ch.n, Ch.a>> >>,
      \* "成aa 0" with "na": Latin letters in and next to a dictionary word
      << <<Ch.sei, Ch.a, Ch.a, Ch.sp, Ch.zero>>, <<Ch.n, Ch.a>> >> }

Inputs == (OrigLines \X RomaLines) \cup ScenarioPairs

Init ==
    /\ \E input \in Inputs :
           /\ orig_text_raw = input[1]
           /\ roma_text_raw = input[2]
    /\ JP_VOCAB_TRIE \in Dictionaries
    /\ pc = "start"
    /\ line_tokens = <<>>
    /\ results = <<>>
    /\ frame = [loop |-> "none"]

\* generate_ruby(orig_line, roma_line)
GenerateRuby ==
    /\ pc = "start"
    /\ IF generate_ruby_raises(orig_text_raw, roma_text_raw)
       THEN pc' = "raised" /\ results' = <<>>
       ELSE pc' = "done" /\ results' = generate_ruby(orig_text_raw, roma_text_raw)
    /\ UNCHANGED <<orig_text_raw, roma_text_raw, JP_VOCAB_TRIE, line_tokens, frame>>

\* _tokenize_orig_line(text)
Tokenize ==
    /\ pc = "start"
    /\ line_tokens' = _tokenize_orig_line(orig_text_raw)
    /\ pc' = "tokenized"
    /\ UNCHANGED <<orig_text_raw, roma_text_raw, JP_VOCAB_TRIE, results, frame>>

\* process_line(roma_text, tokens)
ProcessLine ==
    /\ pc = "tokenized"
    /\ IF process_line_raises(roma_text_raw, line_tokens)
       THEN pc' = "raised" /\ results' = <<>>
       ELSE pc' = "line" /\ results' = process_line(roma_text_raw, line_tokens)
    /\ UNCHANGED <<orig_text_raw, roma_text_raw, JP_VOCAB_TRIE, line_tokens, frame>>

Next == GenerateRuby \/ Tokenize \/ ProcessLine

Spec == Init /\ [][Next]_vars

(***************************************************************************)
(* The loops, one iteration at a time.  A call converts the romanization   *)
(* (roma_to_hiragana) and aligns the tokens of the line with the hiragana  *)
(* (generate_ruby_for_chunk); an iteration that reaches _handle_kanji_block*)
(* runs the anchor scan, and each anchor with variants the occurrence      *)
(* search.  frame holds the local variables of the loop that runs.         *)
(***************************************************************************)
roma_frame(romaji, i, hira) == [loop |-> "roma", romaji |-> romaji, i |-> i, hira |-> hira]

chunk_frame(hira_for_match, st) ==
    [loop |-> "chunk", hira_for_match |-> hira_for_match, st |-> st]

\* the locals of _handle_kanji_block in the anchor scan, over those of the caller
scan_frame(hira_for_match, st, block_end_idx, block, block_hira, cursor, overall_best_match) ==
    [loop |-> "scan", hira_for_match |-> hira_for_match, st |-> st,
     block_end_idx |-> block_end_idx, block |-> block, block_hira |-> block_hira,
     cursor |-> cursor, overall_best_match |-> overall_best_match]

\* the occurrence search of the anchor a: variant v (1-based) from search_pos on
search_frame(f, a, v, search_pos, anchor_best_match) ==
    [loop |-> "search", hira_for_match |-> f.hira_for_match, st |-> f.st,
     block_end_idx |-> f.block_end_idx, block |-> f.block, block_hira |-> f.block_hira,
     cursor |-> a.cursor, overall_best_match |-> f.overall_best_match,
     variants_with_cost |-> a.variants_with_cost,
     original_anchor_text |-> a.original_anchor_text,
     v |-> v, search_pos |-> search_pos, anchor_best_match |-> anchor_best_match]

\* before the call: no arguments yet
InitLoops ==
    /\ orig_text_raw = <<>>
    /\ roma_text_raw = <<>>
    /\ JP_VOCAB_TRIE = <<>>
    /\ pc = "idle"
    /\ line_tokens = <<>>
    /\ results = <<>>
    /\ frame = [loop |-> "none"]

\* the call, with its two lines and the dictionary it finds loaded
Call ==
    /\ pc = "idle"
    /\ \E input \in Inputs :
           /\ orig_text_raw' = input[1]
           /\ roma_text_raw' = input[2]
    /\ JP_VOCAB_TRIE' \in Dictionaries
    /\ pc' = "start"
    /\ UNCHANGED <<line_tokens, results, frame>>

\* roma_to_hiragana(romaji): text = _preprocess_romaji(romaji); i = 0
ConvertStart ==
    /\ pc = "start"
    /\ pc' = "loops"
    /\ frame' = roma_frame(_preprocess_romaji(normalize_NFKC(roma_text_raw)), 0, <<>>)
    /\ UNCHANGED <<orig_text_raw, roma_text_raw, JP_VOCAB_TRIE, line_tokens, results>>

\* the frame after one iteration s of the conversion
roma_next(f, s) == roma_frame(f.romaji, f.i + s.adv, f.hira \o s.out)

\* while i < n: one iteration
RomaStep ==
    /\ pc = "loops" /\ frame.loop = "roma"
    /\ frame.i < Len(frame.romaji)
    /\ frame' = roma_next(frame, roma_step(frame.romaji, frame.i))
    /\ UNCHANGED <<orig_text_raw, roma_text_raw, JP_VOCAB_TRIE, pc, line_tokens, results>>

\* the conversion returns; generate_ruby_for_chunk starts on the tokens of the line
RomaReturn ==
    /\ pc = "loops" /\ frame.loop = "roma"
    /\ frame.i >= Len(frame.romaji)
    /\ line_tokens' = _tokenize_orig_line(normalize_NFKC(orig_text_raw))
    /\ frame' = chunk_frame(HiraganaOnly(frame.hira),
                            [cursor |-> 0, hira_idx |-> 0, results |-> <<>>])
    /\ UNCHANGED <<orig_text_raw, roma_text_raw, JP_VOCAB_TRIE, pc, results>>

\* whether the iteration at the cursor gets as far as _handle_kanji_block
reaches_block(token_stream, hira_for_match, st) ==
    /\ ~(/\ is_annotated_kanji(token_stream, st.cursor)
         /\ step_annotated(token_stream, hira_for_match, st) # <<>>)
    /\ ~IsKana(At(token_stream, st.cursor).char_type)
    /\ At(token_stream, st.cursor).char_type # SYMBOL
    /\ Strip(At(token_stream, st.cursor).text) # <<>>
    /\ step_dictionary(token_stream, hira_for_match, st) = <<>>

\* the block that iteration hands to _handle_kanji_block
block_at(token_stream, hira_for_match, st) ==
    Slice(token_stream, st.cursor,
          block_end(token_stream, st.cursor, hira_for_match, st.hira_idx) + 1)

\* whether the iteration at the cursor runs the anchor scan
scans(token_stream, hira_for_match, st) ==
    /\ reaches_block(token_stream, hira_for_match, st)
    /\ ~is_latin_block(block_at(token_stream, hira_for_match, st))

\* while cursor < len(token_stream): an iteration without an anchor scan
ChunkStep ==
    /\ pc = "loops" /\ frame.loop = "chunk"
    /\ frame.st.cursor < Len(line_tokens)
    /\ ~scans(line_tokens, frame.hira_for_match, frame.st)
    /\ frame' = chunk_frame(frame.hira_for_match,
                            chunk_step(line_tokens, frame.hira_for_match, frame.st))
    /\ UNCHANGED <<orig_text_raw, roma_text_raw, JP_VOCAB_TRIE, pc, line_tokens, results>>

\* the frame of _handle_kanji_block when its anchor scan starts
scan_start(f, token_stream, block_end_idx) ==
    scan_frame(f.hira_for_match, f.st, block_end_idx,
               Slice(token_stream, f.st.cursor, block_end_idx + 1),
               From(f.hira_for_match, f.st.hira_idx),
               start_search_idx_of(Slice(token_stream, f.st.cursor, block_end_idx + 1),
                                   token_stream),
               <<>>)

\* an iteration that calls _handle_kanji_block: cursor = start_search_idx
ScanStart ==
    /\ pc = "loops" /\ frame.loop = "chunk"
    /\ frame.st.cursor < Len(line_tokens)
    /\ scans(line_tokens, frame.hira_for_match, frame.st)
    /\ frame' = scan_start(frame, line_tokens,
                           block_end(line_tokens, frame.st.cursor, frame.hira_for_match,
                                     frame.st.hira_idx))
    /\ UNCHANGED <<orig_text_raw, roma_text_raw, JP_VOCAB_TRIE, pc, line_tokens, results>>

\* the frame after the variants of the anchor a at the cursor were collected
scan_next(f, a) ==
    IF a.variants_with_cost = <<>>
    THEN scan_frame(f.hira_for_match, f.st, f.block_end_idx, f.block, f.block_hira,
                    a.cursor, f.overall_best_match)
    ELSE search_frame(f, a, 1, 0, <<>>)

\* while cursor < len(full_token_stream): one iteration up to the scoring
ScanStep ==
    /\ pc = "loops" /\ frame.loop = "scan"
    /\ frame.cursor < Len(line_tokens)
    /\ frame' = scan_next(frame, anchor_at(line_tokens, frame.cursor, frame.block_hira))
    /\ UNCHANGED <<orig_text_raw, roma_text_raw, JP_VOCAB_TRIE, pc, line_tokens, results>>

\* the frame after hira_for_match.find returned pos
search_next(f, punctuated_len, start_search_idx, pos) ==
    IF pos = -1
    THEN [f EXCEPT !.v = f.v + 1, !.search_pos = 0]
    ELSE [f EXCEPT !.search_pos = pos + 1,
                   !.anchor_best_match =
                       best_of(f.anchor_best_match,
                               variant_candidates(f.variants_with_cost[f.v], <<pos>>,
                                                  f.cursor - start_search_idx,
                                                  punctuated_len, f.original_anchor_text))]

\* while True: pos = find(fuzzy_text, search_pos, search_pos + search_window); a
\* break moves on to the next variant
SearchStep ==
    /\ pc = "loops" /\ frame.loop = "search"
    /\ frame.v <= Len(frame.variants_with_cost)
    /\ frame' = search_next(frame, punctuated_len_of(frame.block),
                            start_search_idx_of(frame.block, line_tokens),
                            Find(frame.block_hira, frame.variants_with_cost[frame.v].text,
                                 frame.search_pos,
                                 frame.search_pos
                                     + search_window_of(punctuated_len_of(frame.block))))
    /\ UNCHANGED <<orig_text_raw, roma_text_raw, JP_VOCAB_TRIE, pc, line_tokens, results>>

\* the variants are used up: the best match so far, and the scan goes on
SearchReturn ==
    /\ pc = "loops" /\ frame.loop = "search"
    /\ frame.v > Len(frame.variants_with_cost)
    /\ frame' = scan_frame(frame.hira_for_match, frame.st, frame.block_end_idx, frame.block,
                           frame.block_hira, frame.cursor,
                           best_of(frame.overall_best_match, frame.anchor_best_match))
    /\ UNCHANGED <<orig_text_raw, roma_text_raw, JP_VOCAB_TRIE, pc, line_tokens, results>>

\* the scan is over: _handle_kanji_block returns, the iteration of the caller ends
ScanReturn ==
    /\ pc = "loops" /\ frame.loop = "scan"
    /\ frame.cursor >= Len(line_tokens)
    /\ frame' = chunk_frame(frame.hira_for_match,
                            block_state(frame.st, frame.block_end_idx,
                                        block_result(frame.block, frame.block_hira,
                                                     punctuated_len_of(frame.block),
                                                     frame.overall_best_match)))
    /\ UNCHANGED <<orig_text_raw, roma_text_raw, JP_VOCAB_TRIE, pc, line_tokens, results>>

\* generate_ruby_for_chunk returns
ChunkReturn ==
    /\ pc = "loops" /\ frame.loop = "chunk"
    /\ frame.st.cursor >= Len(line_tokens)
    /\ pc' = "returned"
    /\ results' = frame.st.results
    /\ frame' = [loop |-> "none"]
    /\ UNCHANGED <<orig_text_raw, roma_text_raw, JP_VOCAB_TRIE, line_tokens>>

NextLoops ==
    \/ Call
    \/ ConvertStart \/ RomaStep \/ RomaReturn
    \/ ChunkStep \/ ScanStart \/ ScanStep \/ SearchStep \/ SearchReturn \/ ScanReturn
    \/ ChunkReturn

\* a call that has started runs on: its next statement is executed
SpecLoops == InitLoops /\ [][NextLoops]_vars /\ WF_vars(NextLoops)

(***************************************************************************)
(* The functions of _logic.py, called one at a time.  A behaviour is one   *)
(* call: frame holds the function and its arguments, results what it       *)
(* returned, line_tokens the token list the arguments were taken from.     *)
(***************************************************************************)
MaxTargetLen == 2     \* the enumerated hiragana targets have at most this many characters

\* the characters of the hiragana targets
TargetChars == {Ch.hka, Ch.hga, Ch.hsu, Ch.ha, Ch.hwa}

Targets == SeqsUpTo(TargetChars, MaxTargetLen)

\* lines whose kana tokens serve as anchors: plain kana, a kana two rules apply to
\* in a row, kana with a sokuon, a particle, katakana with a long mark, a long
\* mark after a kanji, and a kana after a kanji
AnchorLines ==
    { <<Ch.hka>>, <<Ch.hdu>>, <<Ch.hka, Ch.htsu>>, <<Ch.hha>>, <<Ch.kka, Ch.long>>,
      <<Ch.hei, Ch.long>>, <<Ch.hei, Ch.hga>> }

\* the 0-based indices of the kana tokens of a token list
kana_indices(tokens) == {i \in 0..(Len(tokens) - 1) : IsKana(At(tokens, i).char_type)}

InitUnits ==
    /\ orig_text_raw = <<>>
    /\ roma_text_raw = <<>>
    /\ JP_VOCAB_TRIE \in Dictionaries
    /\ pc = "unit"
    /\ line_tokens = <<>>
    /\ results = <<>>
    /\ frame = [loop |-> "none", fn |-> "none"]

\* the arguments of a call of _generate_variants or of _handle_kana_token from
\* generate_ruby_for_chunk, which is at token i with the hiragana cursor at idx
kana_call(fn, tokens, i, hira_for_match, idx) ==
    [loop |-> "none", fn |-> fn, token |-> At(tokens, i),
     hira_for_match |-> hira_for_match, hira_match_idx |-> idx]

\* _generate_variants(anchor_hira, tokens, token, hira_for_match[hira_match_idx:])
CallGenerateVariants ==
    /\ pc = "unit"
    /\ \E line \in AnchorLines, hira \in Targets :
       \E i \in kana_indices(_tokenize_orig_line(line)), idx \in 0..Len(hira) :
           /\ line_tokens' = _tokenize_orig_line(line)
           /\ frame' = kana_call("_generate_variants", line_tokens', i, hira, idx)
           /\ results' = _generate_variants(
                             NoSpace(katakana_to_hiragana(frame'.token.text)),
                             line_tokens', frame'.token, From(hira, idx))
    /\ pc' = "returned"
    /\ UNCHANGED <<orig_text_raw, roma_text_raw, JP_VOCAB_TRIE>>

\* _handle_kana_token(token, hira_for_match, hira_match_idx, tokens)
CallHandleKanaToken ==
    /\ pc = "unit"
    /\ \E line \in AnchorLines, hira \in Targets :
       \E i \in kana_indices(_tokenize_orig_line(line)), idx \in 0..Len(hira) :
           /\ line_tokens' = _tokenize_orig_line(line)
           /\ frame' = kana_call("_handle_kana_token", line_tokens', i, hira, idx)
           /\ results' = _handle_kana_token(frame'.token, hira, idx, line_tokens')
    /\ pc' = "returned"
    /\ UNCHANGED <<orig_text_raw, roma_text_raw, JP_VOCAB_TRIE>>

\* lines whose blocks are handed to _handle_kanji_block: a kanji, kanji and kana,
\* Latin letters alone, with a digit, after a kanji, and around a space
BlockLines ==
    { <<Ch.hei>>, <<Ch.hei, Ch.hka>>, <<Ch.hei, Ch.sei, Ch.hka>>,
      <<Ch.a, Ch.a>>, <<Ch.a, Ch.a, Ch.zero>>, <<Ch.hei, Ch.a, Ch.a, Ch.a>>,
      <<Ch.hka, Ch.a, Ch.sp, Ch.a>>, <<Ch.hei, Ch.comma, Ch.a>>, <<Ch.hei, Ch.sp>> }

\* the remaining hiragana of those calls: the enumerated targets, one with a
\* reading behind another character, and one of more than 5 characters
BlockTargets ==
    Targets \cup { <<Ch.ha, Ch.hka>>, <<Ch.ha, Ch.hka, Ch.hna>>,
                   <<Ch.hka, Ch.hka, Ch.hka, Ch.hka, Ch.hka, Ch.hka>> }

\* generate_ruby_for_chunk at the token i with the hiragana cursor at idx
chunk_at(i, idx) == [cursor |-> i, hira_idx |-> idx, results |-> <<>>]

\* the arguments of the call of _handle_kanji_block from that iteration
block_call(tokens, i, hira_for_match, idx) ==
    [loop |-> "none", fn |-> "_handle_kanji_block",
     block |-> block_at(tokens, hira_for_match, chunk_at(i, idx)),
     hira_for_match |-> From(hira_for_match, idx)]

\* _handle_kanji_block(token_block, remaining_hira, token_stream)
CallHandleKanjiBlock ==
    /\ pc = "unit"
    /\ \E line \in BlockLines, hira \in BlockTargets :
       \E i \in 0..(Len(_tokenize_orig_line(line)) - 1), idx \in 0..Len(hira) :
           /\ reaches_block(_tokenize_orig_line(line), hira, chunk_at(i, idx))
           /\ line_tokens' = _tokenize_orig_line(line)
           /\ frame' = block_call(line_tokens', i, hira, idx)
           /\ results' = _handle_kanji_block(frame'.block, frame'.hira_for_match, line_tokens')
    /\ pc' = "returned"
    /\ UNCHANGED <<orig_text_raw, roma_text_raw, JP_VOCAB_TRIE>>

\* lines with dictionary words: of one kanji, of kanji and kana, of three kanji
\* with kana between them
GroupLines ==
    { <<Ch.hei>>, <<Ch.hei, Ch.hka>>, <<Ch.hka, Ch.hei>>, <<Ch.sei, Ch.hei, Ch.hka>>,
      <<Ch.hei, Ch.hka, Ch.sei, Ch.hna, Ch.hei>> }

\* the hiragana targets of the calls that take a dictionary reading
ReadingTargets ==
    Targets \cup { <<Ch.hna, Ch.hka>>, <<Ch.hka, Ch.hna>>, <<Ch.hka, Ch.hka, Ch.hna, Ch.hka>> }

\* the dictionary-first step at the token i: the index after the group, its
\* tokens, its readings, and the reading _select_best_reading selects (0 or 1)
group_end_at(tokens, i) == GroupEnd(tokens, i + 1, At(tokens, i).group_id)
group_at(tokens, i) == Slice(tokens, i, group_end_at(tokens, i))
readings_at(tokens, i) == find_word(JP_VOCAB_TRIE, JoinText(group_at(tokens, i)))
best_match_at(tokens, i, hira_for_match) ==
    _select_best_reading(readings_at(tokens, i), hira_for_match,
                         _find_next_anchor(group_end_at(tokens, i), tokens))

\* the token i is one the dictionary-first step looks up with a result
looked_up(tokens, i) ==
    /\ At(tokens, i).group_id # NoGroup
    /\ ~IsKana(At(tokens, i).char_type)
    /\ At(tokens, i).char_type # SYMBOL
    /\ readings_at(tokens, i) # <<>>

\* _align_and_generate_ruby_for_word(grouped_tokens, reading)
CallAlign ==
    /\ pc = "unit"
    /\ \E line \in GroupLines, hira \in ReadingTargets :
       \E i \in 0..(Len(_tokenize_orig_line(line)) - 1) :
           /\ looked_up(_tokenize_orig_line(line), i)
           /\ best_match_at(_tokenize_orig_line(line), i, hira) # <<>>
           /\ line_tokens' = _tokenize_orig_line(line)
           /\ frame' = [loop |-> "none", fn |-> "_align_and_generate_ruby_for_word",
                        grouped_tokens |-> group_at(line_tokens', i),
                        reading |-> best_match_at(line_tokens', i, hira)[1].reading]
           /\ results' = _align_and_generate_ruby_for_word(frame'.grouped_tokens,
                                                            frame'.reading)
    /\ pc' = "returned"
    /\ UNCHANGED <<orig_text_raw, roma_text_raw, JP_VOCAB_TRIE>>

\* the readings a dictionary entry may hold, and the tuples find_word may return
ReadingChoices ==
    { <<Ch.hka>>, <<Ch.hka, Ch.hna>>, <<Ch.hna>>, <<Ch.hna, Ch.hka>>, <<Ch.hka, Ch.hka>> }
ReadingTuples == SeqsUpTo(ReadingChoices, 2) \ {<<>>}

\* what follows the word: nothing, a hiragana, a katakana, a kana behind a kanji
NextAnchorLines == { <<>>, <<Ch.hka>>, <<Ch.hna>>, <<Ch.kka>>, <<Ch.hei, Ch.hka>> }

\* _select_best_reading(readings, hira_for_match[hira_idx:], next_anchor)
CallSelectBestReading ==
    /\ pc = "unit"
    /\ \E readings \in ReadingTuples, hira \in ReadingTargets, line \in NextAnchorLines :
           /\ line_tokens' = _tokenize_orig_line(line)
           /\ frame' = [loop |-> "none", fn |-> "_select_best_reading",
                        readings |-> readings, hira_for_match |-> hira,
                        next_anchor |-> _find_next_anchor(0, line_tokens')]
           /\ results' = _select_best_reading(frame'.readings, frame'.hira_for_match,
                                              frame'.next_anchor)
    /\ pc' = "returned"
    /\ UNCHANGED <<orig_text_raw, roma_text_raw, JP_VOCAB_TRIE>>

\* lines for the iterations of generate_ruby_for_chunk: those of the calls above,
\* pre-annotated kanji (hint in hiragana and in katakana, with and without a kana
\* behind), words next to words, and a word of a kanji and a Latin letter
ChunkLines ==
    GroupLines \cup BlockLines \cup AnchorLines \cup
    { <<Ch.hei, Ch.lpar, Ch.hka, Ch.rpar>>,
      <<Ch.hei, Ch.lpar, Ch.hka, Ch.rpar, Ch.hna>>,
      <<Ch.hei, Ch.lpar, Ch.kka, Ch.rpar, Ch.kka>>,
      <<Ch.noma, Ch.lpar, Ch.hka, Ch.rpar, Ch.comma>>,
      <<Ch.hei, Ch.hna>>, <<Ch.sei, Ch.hna>>, <<Ch.hei, Ch.sei>>, <<Ch.sei, Ch.hei>>,
      <<Ch.sei, Ch.a>>, <<Ch.noma, Ch.sei, Ch.a>>, <<Ch.noma, Ch.hei, Ch.hka>> }

\* the hiragana of the chunk
ChunkTargets ==
    ReadingTargets \cup
    { <<Ch.hna>>, <<Ch.ha, Ch.hna>>, <<Ch.hna, Ch.hna>>, <<Ch.hka, Ch.hka, Ch.hna>>,
      <<Ch.hna, Ch.hka, Ch.hna>>, <<Ch.ha, Ch.hna, Ch.hka>> }

\* cursor = 0, hira_idx = 0, results = []
chunk_start == [cursor |-> 0, hira_idx |-> 0, results |-> <<>>]

RECURSIVE chunk_after(_, _, _, _)
\* the state of the loop of generate_ruby_for_chunk after n iterations
chunk_after(token_stream, hira_for_match, st, n) ==
    IF n = 0 \/ st.cursor >= Len(token_stream) THEN st
    ELSE chunk_after(token_stream, hira_for_match,
                     chunk_step(token_stream, hira_for_match, st), n - 1)

\* one iteration of the loop of generate_ruby_for_chunk(tokens, hira_for_match),
\* from the state st the loop is in after some iterations; results is the state
\* after the iteration
CallChunkStep ==
    /\ pc = "unit"
    /\ \E line \in ChunkLines, hira \in ChunkTargets :
       \E n \in 0..(Len(_tokenize_orig_line(line)) - 1) :
           /\ chunk_after(_tokenize_orig_line(line), hira, chunk_start, n).cursor
                  < Len(_tokenize_orig_line(line))
           /\ line_tokens' = _tokenize_orig_line(line)
           /\ frame' = [loop |-> "none", fn |-> "generate_ruby_for_chunk",
                        hira_for_match |-> hira,
                        st |-> chunk_after(line_tokens', hira, chunk_start, n)]
           /\ results' = chunk_step(line_tokens', hira, frame'.st)
    /\ pc' = "returned"
    /\ UNCHANGED <<orig_text_raw, roma_text_raw, JP_VOCAB_TRIE>>

\* original texts for the index mapper: a kanji, and characters whose NFKC form
\* has two characters, three characters, and one other character
MapperChars == {Ch.hei, Ch.heisei, Ch.ellip, Ch.wsp}
MapperTexts == SeqsUpTo(MapperChars, MaxOrigLen)

\* IndexMapper(original_text).to_original_indices(start, end)
CallToOriginalIndices ==
    /\ pc = "unit"
    /\ \E original_text \in MapperTexts :
       \E start, end \in 0..(Len(normalize_NFKC(original_text)) + 1) :
           /\ frame' = [loop |-> "none", fn |-> "to_original_indices",
                        mapper |-> IndexMapper(original_text),
                        start |-> start, end |-> end]
           /\ results' = to_original_indices(frame'.mapper, start, end)
    /\ pc' = "returned"
    /\ UNCHANGED <<orig_text_raw, roma_text_raw, JP_VOCAB_TRIE, line_tokens>>

NextUnits ==
    \/ CallGenerateVariants
    \/ CallHandleKanaToken
    \/ CallHandleKanjiBlock
    \/ CallAlign
    \/ CallSelectBestReading
    \/ CallChunkStep
    \/ CallToOriginalIndices

SpecUnits == InitUnits /\ [][NextUnits]_vars
(***************************************************************************)
(* Properties of generate_ruby.  They are stated on the state after the    *)
(* call: pc = "done", results the returned list.                           *)
(***************************************************************************)
orig_text_of == normalize_NFKC(orig_text_raw)
roma_text_of == normalize_NFKC(roma_text_raw)

\* the hiragana the whole romanization converts to
line_hira_of == HiraganaOnly(roma_to_hiragana(roma_text_of))

\* the readings of a list of spans, in order
readings_of(spans) == [i \in 1..Len(spans) |-> spans[i][3]]

\* C1: every returned triple (start, end, reading) has
\* 0 <= start < end <= len(original line), and its reading is non-empty and
\* made of hiragana characters only.
C1_Validity ==
    pc = "done" =>
        \A i \in 1..Len(results) :
            /\ 0 <= results[i][1]
            /\ results[i][1] < results[i][2]
            /\ results[i][2] <= Len(orig_text_raw)
            /\ results[i][3] # <<>>
            /\ \A j \in 1..Len(results[i][3]) : IsHiraganaChar(results[i][3][j])

\* a call returned a span for a character that normalizes to two characters
C1_Witness ==
    /\ pc = "done"
    /\ orig_text_raw = <<Ch.heisei, Ch.sp, Ch.hei>>
    /\ Len(results) = 2
    /\ results[2][1] = 2 /\ results[2][2] = 3

\* C2: no two returned spans overlap in the coordinates of the original text.
C2_NonOverlap ==
    pc = "done" =>
        \A i, j \in 1..Len(results) :
            i # j => results[i][2] <= results[j][1] \/ results[j][2] <= results[i][1]

\* RECURSIVE walk: every reading is found at or after the end of the one before
RECURSIVE WalkFrom(_, _, _)
WalkFrom(readings, hira, pos) ==
    IF readings = <<>> THEN TRUE
    ELSE LET p == Find(hira, Head(readings), pos, Len(hira))
         IN  p # -1 /\ WalkFrom(Tail(readings), hira, p + Len(Head(readings)))

\* C3: the readings, in span order, are pairwise non-overlapping slices at
\* increasing positions of the hiragana conversion of the romanization.
C3_PrefixWalk ==
    pc = "done" => WalkFrom(readings_of(results), line_hira_of, 0)

\* C4: generate_ruby raises no exception: every call returns a list.
C4_NoException == pc # "raised"

\* a call returned spans although the sentence counts differ and the chunk counts
\* of the whole line differ too
C4_Witness ==
    /\ pc = "done"
    /\ orig_text_raw = <<Ch.hei, Ch.sp, Ch.comma>>
    /\ roma_text_raw = <<Ch.k, Ch.a, Ch.n, Ch.a>>
    /\ results # <<>>

\* C5: the result is empty when the normalized original holds no kanji, and when
\* the normalized romanization is empty or blank.
C5_Emptiness ==
    pc = "done" =>
        /\ (\A i \in 1..Len(orig_text_of) :
               ~(19968 <= orig_text_of[i] /\ orig_text_of[i] <= 40959)) => results = <<>>
        /\ (\A i \in 1..Len(roma_text_of) : roma_text_of[i] = Ch.sp) => results = <<>>

\* a call on the iteration mark, which is no kanji of the range, returned nothing
C5_Witness ==
    /\ pc = "done"
    /\ orig_text_raw = <<Ch.noma>>
    /\ roma_text_raw = <<Ch.k, Ch.a>>
    /\ results = <<>>

\* C6: the tokens of a text are contiguous and cover it, each token's text is
\* text[start:end], and the tokens of one group are adjacent.
C6_TokensCover ==
    pc = "tokenized" =>
        /\ (orig_text_raw = <<>>) = (line_tokens = <<>>)
        /\ line_tokens # <<>> =>
               /\ line_tokens[1].start = 0
               /\ line_tokens[Len(line_tokens)].end = Len(orig_text_raw)
        /\ \A i \in 1..Len(line_tokens) :
               /\ line_tokens[i].start < line_tokens[i].end
               /\ line_tokens[i].text
                      = SubSeq(orig_text_raw, line_tokens[i].start + 1, line_tokens[i].end)
               /\ i < Len(line_tokens) => line_tokens[i].end = line_tokens[i + 1].start
        /\ \A i, j \in 1..Len(line_tokens) :
               (/\ i < j
                /\ line_tokens[i].group_id # NoGroup
                /\ line_tokens[i].group_id = line_tokens[j].group_id)
               => \A k \in i..j : line_tokens[k].group_id = line_tokens[i].group_id

\* a dictionary word of a kanji and a kana, not at the start of the text, was split
\* into two tokens of one group
C6_Witness ==
    /\ pc = "tokenized"
    /\ \E i \in 1..(Len(line_tokens) - 1) :
           /\ line_tokens[i].start > 0
           /\ line_tokens[i].group_id # NoGroup
           /\ line_tokens[i].group_id = line_tokens[i + 1].group_id

\* the normalized text the span covers in the original line
span_text_of(span) == normalize_NFKC(SubSeq(orig_text_raw, span[1] + 1, span[2]))

\* C8 as stated: no returned span has a reading more than 5 times as long as
\* the source text it is attached to, whichever step produced it.  (The
\* annotatable text is at most the whole text under the span.)
C8_RatioAlways ==
    pc = "done" =>
        \A i \in 1..Len(results) :
            Len(results[i][3]) <= RATIO_LIMIT * Len(span_text_of(results[i]))

\* the span is followed by "(" hint ")" and its reading starts with the hint
is_pre_annotated(span) ==
    /\ span[2] < Len(orig_text_raw)
    /\ At(orig_text_raw, span[2]) = Ch.lpar
    /\ \E j \in (span[2] + 2)..(Len(orig_text_raw) - 1) :
           /\ At(orig_text_raw, j) = Ch.rpar
           /\ StartsWith(span[3], katakana_to_hiragana(Slice(orig_text_raw, span[2] + 1, j)))

\* the reading is a reading of the dictionary, or a part of one
is_dictionary_reading(ruby) ==
    \E k \in 1..Len(JP_VOCAB_TRIE) :
        \E r \in 1..Len(JP_VOCAB_TRIE[k].readings) :
            Contains(JP_VOCAB_TRIE[k].readings[r], ruby)

\* C8, amended: a returned span that is neither a pre-annotated hint nor a
\* dictionary reading has a reading at most 5 times as long as the source text
\* under it: the readings cut from the conversion by the anchor search or taken
\* as its remaining tail are discarded above that ratio.
C8_RatioChecked ==
    pc = "done" =>
        \A i \in 1..Len(results) :
            \/ Len(results[i][3]) <= RATIO_LIMIT * Len(span_text_of(results[i]))
            \/ is_pre_annotated(results[i])
            \/ is_dictionary_reading(results[i][3])

\* a lone kanji with a romanization of six syllables and no dictionary: the tail
\* is six times as long as the block, and nothing was returned
C8_Witness ==
    /\ pc = "done"
    /\ orig_text_raw = <<Ch.hei>>
    /\ roma_text_raw = Kas(6)
    /\ JP_VOCAB_TRIE = <<>>
    /\ results = <<>>

\* the outcome of the first loop of process_line on the tokenized line
line_dividers_of == find_dividers(line_tokens, 1, roma_text_raw, {})

\* the two chunk counts process_line compares
line_hira_chunk_count == Len(hira_chunks_of(roma_to_hiragana(line_dividers_of.processed_roma)))
line_token_chunk_count ==
    Len(token_chunks_of(line_tokens, line_dividers_of.dividing_token_indices))

\* C9: when the count of the non-blank hiragana chunks differs from the count of
\* the token chunks, process_line returns what generate_ruby_for_chunk returns for
\* the complete token list and the hiragana of the unmodified romanization.
C9_MismatchFallback ==
    (pc = "line" /\ line_hira_chunk_count # line_token_chunk_count) =>
        results = generate_ruby_for_chunk(line_tokens,
                                          HiraganaOnly(roma_to_hiragana(roma_text_raw)))

\* process_line returned spans for a line with fewer hiragana chunks than token
\* chunks
C9_Witness ==
    /\ pc = "line"
    /\ line_hira_chunk_count < line_token_chunk_count
    /\ line_hira_chunk_count > 0
    /\ results # <<>>

\* the segments of the two normalized texts
orig_split_of == split_spaces(orig_text_of, ORIG_SEP_MIN, 0, <<>>)
roma_split_of == split_spaces(roma_text_of, ROMA_SEP_MIN, 0, <<>>)

\* the index in the normalized original at which segment i starts
segment_start_of(i) ==
    SumSeq([j \in 1..(i - 1) |->
               Len(orig_split_of.segments[j]) + Len(orig_split_of.seps[j])])

\* spans shifted by offset and mapped to the coordinates of the original
shifted_and_mapped(spans, offset) ==
    [j \in 1..Len(spans) |->
        LET o == to_original_indices(IndexMapper(orig_text_raw),
                                     spans[j][1] + offset, spans[j][2] + offset)
        IN  <<o[1], o[2], spans[j][3]>>]

\* process_line on the segment pair i
segment_result_of(i) ==
    process_line(roma_split_of.segments[i], _tokenize_orig_line(orig_split_of.segments[i]))

C7_Terminates ==
    [][/\ (frame.loop = "roma" /\ frame'.loop = "roma")
              => frame.i < frame'.i /\ frame'.i <= Len(frame'.romaji)
       /\ (frame.loop \in {"chunk", "scan"} /\ frame'.loop = "chunk")
              => /\ frame.st.cursor < frame'.st.cursor
                 /\ frame'.st.cursor <= Len(line_tokens)
       /\ (frame.loop = "scan" /\ frame'.loop \in {"scan", "search"})
              => frame.cursor < frame'.cursor /\ frame'.cursor <= Len(line_tokens)
       /\ (frame.loop = "search" /\ frame'.loop = "search")
              => /\ \/ frame.v < frame'.v
                    \/ frame.v = frame'.v /\ frame.search_pos < frame'.search_pos
                 /\ frame'.v <= Len(frame'.variants_with_cost) + 1
                 /\ frame'.search_pos <= Len(frame'.block_hira) + 1]_vars

\* the occurrence search is at an empty variant, past its first occurrence
C7_Witness ==
    /\ pc = "loops"
    /\ frame.loop = "search"
    /\ frame.v <= Len(frame.variants_with_cost)
    /\ frame.variants_with_cost[frame.v].text = <<>>
    /\ frame.search_pos > 0

\* the loops return what the functions return
LoopsAgree ==
    pc = "returned" =>
        results = generate_ruby_for_chunk(
                      _tokenize_orig_line(normalize_NFKC(orig_text_raw)),
                      HiraganaOnly(roma_to_hiragana(normalize_NFKC(roma_text_raw))))


\* the variant the occurrence search is at, and 5 x n + 10 for its block
searched_text == frame.variants_with_cost[frame.v].text
first_window == WINDOW_FACTOR * punctuated_len_of(frame.block) + WINDOW_BASE

\* an iteration of the occurrence search that found and scored an occurrence; the
\* search goes on from one past it
scores_occurrence ==
    /\ frame.loop = "search" /\ frame'.loop = "search"
    /\ frame'.v = frame.v

\* C14 as stated: every occurrence the anchor search scores lies within the
\* first 5 x n + 10 characters of the remaining hiragana, and so does the
\* candidate it chooses.
C14_FirstWindow ==
    [][/\ scores_occurrence
              => (frame'.search_pos - 1) + Len(searched_text) <= first_window
       /\ (frame.loop = "search" /\ frame'.loop = "scan" /\ frame'.overall_best_match # <<>>)
              => frame'.overall_best_match[1].pos
                     + Len(frame'.overall_best_match[1].fuzzy_text) <= first_window]_vars

\* C14, for the window the code searches: every occurrence the anchor search
\* scores lies within the 5 x n + 10 characters that start at the search
\* position, which is 0 for the first occurrence of a variant and one past the
\* occurrence found before for every other.
C14_SlidingWindow ==
    [][scores_occurrence
           => /\ frame.search_pos <= frame'.search_pos - 1
              /\ (frame'.search_pos - 1) + Len(searched_text)
                     <= frame.search_pos + first_window]_vars

\* the search scored an occurrence that ends beyond the first 5 x n + 10 characters
C14_Witness ==
    /\ pc = "loops" /\ frame.loop = "search"
    /\ frame.v <= Len(frame.variants_with_cost)
    /\ frame.search_pos > 0
    /\ (frame.search_pos - 1) + Len(searched_text) > first_window

\* the token at index i (0-based) of the line is the first of its group
starts_group(i) ==
    i = 0 \/ At(line_tokens, i - 1).group_id # At(line_tokens, i).group_id

\* the token at index i is one the dictionary is consulted for: a token of a
\* group that is neither kana nor a symbol
consulted(i) ==
    /\ i < Len(line_tokens)
    /\ At(line_tokens, i).group_id # NoGroup
    /\ ~IsKana(At(line_tokens, i).char_type)
    /\ At(line_tokens, i).char_type # SYMBOL

\* C15: a dictionary group is handled as a unit.  Wherever the dictionary is
\* consulted for a token of a group, the tokens joined for the lookup, which
\* are those of the group from that token on, are all tokens of the group: in
\* the dictionary-first step of generate_ruby_for_chunk (the token at the
\* cursor), in the false-anchor test (the tokens after the first of the block,
\* up to the one that ended it) and in the anchor scan of _handle_kanji_block
\* (the token at its cursor).
C15_GroupAsUnit ==
    /\ (pc = "loops" /\ frame.loop = "chunk" /\ consulted(frame.st.cursor))
           => starts_group(frame.st.cursor)
    /\ (pc = "loops" /\ frame.loop = "scan")
           => /\ \A j \in (frame.st.cursor + 1)..(frame.block_end_idx + 1) :
                     (consulted(j) /\ At(line_tokens, j).char_type \in {KANJI, OTHER_TYPE})
                         => starts_group(j)
              /\ consulted(frame.cursor) => starts_group(frame.cursor)

(***************************************************************************)
(* Properties of the dispatch steps and of the functions they call.        *)
(***************************************************************************)
\* C11: if the romanization converts to a string that holds no hiragana
\* character, generate_ruby returns the empty list, for every original line.
C11_NoHiraganaNoSpans ==
    (pc = "done" /\ line_hira_of = <<>>) => results = <<>>

\* the number of whitespace characters the text begins with
LeadingSpaces(s) == Len(s) - Len(LStrip(s))

\* C12, as stated on the characters of the input: every apostrophe of the
\* input that is not its last character is an apostrophe of the text the loop
\* of roma_to_hiragana runs over, and the character before it is an n there
\* exactly when it is one in the input; so it emits nothing after an n and one
\* sokuon otherwise.  (Inputs without u: the spelling correction adds no character.)
C12_ApostropheOfInput ==
    (pc = "loops" /\ frame.loop = "roma" /\ Ch.u \notin CharSet(roma_text_of)) =>
        \A p \in 1..(Len(roma_text_of) - 1) :
            roma_text_of[p] = Ch.apos =>
                LET q == p - LeadingSpaces(roma_text_of)
                IN  /\ q <= Len(frame.romaji)
                    /\ frame.romaji[q] = Ch.apos
                    /\ (p > 1 /\ roma_text_of[p - 1] = Ch.n)
                           <=> (q > 1 /\ frame.romaji[q - 1] = Ch.n)

\* C12, on the preprocessed text: an iteration of roma_to_hiragana's loop that
\* finds an apostrophe consumes exactly this one character, and appends nothing
\* when the character before it is an n and exactly one sokuon otherwise.
C12_ApostropheStep ==
    [][(/\ frame.loop = "roma"
        /\ frame'.loop = "roma"
        /\ At(frame.romaji, frame.i) = Ch.apos)
           => /\ frame'.i = frame.i + 1
              /\ frame'.hira = frame.hira \o
                     (IF frame.i > 0 /\ At(frame.romaji, frame.i - 1) = Ch.n
                      THEN <<>> ELSE <<Ch.htsu>>)]_vars

\* "n'a" was converted: the n gave ん, the apostrophe nothing, the vowel its kana
C12_Witness ==
    /\ pc = "loops" /\ frame.loop = "roma"
    /\ frame.romaji = <<Ch.n, Ch.apos, Ch.a>>
    /\ frame.i = 3
    /\ frame.hira = <<Ch.hn, Ch.ha>>

(***************************************************************************)
(* Properties of single functions, stated on the state after the call:     *)
(* pc = "returned", frame the arguments, results the value returned.       *)
(***************************************************************************)
\* the anchor and the target of the call in frame
call_anchor == NoSpace(katakana_to_hiragana(frame.token.text))
call_target == From(frame.hira_for_match, frame.hira_match_idx)

RECURSIVE apply_all(_, _, _, _, _)
\* the rules lo..hi of ALL_RULES applied in order, as apply_rules applies a list
\* (the first half of the range is evaluated before the second is entered, which
\* keeps the evaluation shallow; a list of variants is never empty)
apply_all(lo, hi, variants, tokens, current_token) ==
    IF lo > hi THEN variants
    ELSE IF lo = hi
         THEN variants \o apply_rule(ALL_RULES[lo], variants, 1, <<>>, tokens, current_token)
         ELSE LET first_half == apply_all(lo, (lo + hi) \div 2, variants, tokens, current_token)
              IN  IF first_half = <<>> THEN <<>>
                  ELSE apply_all((lo + hi) \div 2 + 1, hi, first_half, tokens, current_token)

\* the variants of the call's anchor when no rule is filtered out
unfiltered_variants ==
    SortByCost(apply_all(1, Len(ALL_RULES),
                         <<[text |-> call_anchor, cost |-> 0, reasons |-> <<>>]>>,
                         line_tokens, frame.token))

\* the texts of the variants that occur in a target
occurring(variants, target) == {t \in VariantTexts(variants) : Contains(target, t)}

\* the cursor _handle_kana_token returns for a list of variants
cursor_after(variants) ==
    LET hit == FirstMatching(variants, frame.hira_for_match, frame.hira_match_idx)
    IN  IF hit # <<>> THEN frame.hira_match_idx + Len(hit[1].text) ELSE frame.hira_match_idx

\* C13: skipping rules by introduced_chars has no effect: the variants that
\* occur in the target are the same with and without the pre-filter, and
\* _handle_kana_token returns the same cursor with and without it.
C13_FilterNoEffect ==
    /\ (pc = "returned" /\ frame.fn = "_generate_variants")
           => occurring(results, call_target) = occurring(unfiltered_variants, call_target)
    /\ (pc = "returned" /\ frame.fn = "_handle_kana_token")
           => results = cursor_after(unfiltered_variants)

\* the non-whitespace characters of a block, and the Latin letters among them
block_chars(block) == NoSpace(JoinText(block))
latin_letters(text) == SelectSeq(text, LAMBDA c : IsAsciiLower(Lower(c)))

\* C16: _handle_kanji_block returns no span for a block in which more than
\* half of the non-whitespace characters are Latin letters, whatever the other
\* characters are.
C16_LatinMajority ==
    (/\ pc = "returned" /\ frame.fn = "_handle_kanji_block"
     /\ 2 * Len(latin_letters(block_chars(frame.block))) > Len(block_chars(frame.block)))
        => results = <<>>

\* C17: the alignment of a dictionary reading never annotates a kana
\* sub-token: no returned span covers a HIRAGANA or KATAKANA token of the group.
C17_KanaNotAnnotated ==
    (pc = "returned" /\ frame.fn = "_align_and_generate_ruby_for_word") =>
        \A s \in 1..Len(results), t \in 1..Len(frame.grouped_tokens) :
            IsKana(frame.grouped_tokens[t].char_type)
                => ~(/\ results[s][1] <= frame.grouped_tokens[t].start
                     /\ frame.grouped_tokens[t].end <= results[s][2])

\* the indices of the generated variants that the hiragana starts with at the cursor
matching_variants(variants) ==
    {k \in 1..Len(variants) :
         StartsWithAt(frame.hira_for_match, variants[k].text, frame.hira_match_idx)}

\* what C18 says of the cursor returned, for the variants generated
cursor_by_cost(variants) ==
    IF matching_variants(variants) = {}
    THEN results = frame.hira_match_idx
    ELSE /\ \E k \in matching_variants(variants) :
                /\ \A j \in matching_variants(variants) : variants[k].cost <= variants[j].cost
                /\ results = frame.hira_match_idx + Len(variants[k].text)
         /\ StartsWithAt(frame.hira_for_match, call_anchor, frame.hira_match_idx)
                => results = frame.hira_match_idx + Len(call_anchor)

\* C18: _handle_kana_token returns a cursor and no span: idx + len(v) for a
\* variant v of least cost among the generated variants that the hiragana
\* starts with at idx, the anchor itself whenever it matches, and idx when no
\* variant matches; the iteration of generate_ruby_for_chunk at a kana token
\* takes this cursor, adds no span and moves on to the next token.
C18_KanaCursor ==
    (pc = "returned" /\ frame.fn = "_handle_kana_token") =>
        /\ results \in Nat
        /\ cursor_by_cost(_generate_variants(call_anchor, line_tokens, frame.token, call_target))
        /\ \A i \in 0..(Len(line_tokens) - 1) :
               At(line_tokens, i) = frame.token
                   => chunk_step(line_tokens, frame.hira_for_match,
                                 chunk_at(i, frame.hira_match_idx))
                          = [cursor |-> i + 1, hira_idx |-> results, results |-> <<>>]

\* a variant shorter than the anchor matched where the anchor did not
C18_Witness ==
    /\ pc = "returned" /\ frame.fn = "_handle_kana_token"
    /\ ~StartsWithAt(frame.hira_for_match, call_anchor, frame.hira_match_idx)
    /\ results > frame.hira_match_idx
    /\ results < frame.hira_match_idx + Len(call_anchor)

\* the positions in ALL_RULES of the rules that carry a name
rules_named(name) == {k \in 1..Len(ALL_RULES) : ALL_RULES[k].name = name}

\* the costs of the rules an entry names, in the order it names them
named_costs(v) ==
    [k \in 1..Len(v.reasons) |-> ALL_RULES[CHOOSE r \in rules_named(v.reasons[k]) : TRUE].cost]

\* C19: _generate_variants returns a list sorted by non-decreasing cost that
\* opens with the unmodified anchor at cost 0 with no rule named; no text is in
\* the list twice; every entry names rules of ALL_RULES, each at most once and
\* in the order of the single pass over the rules, and its cost is the sum of
\* the costs of the rules it names.
C19_VariantList ==
    (pc = "returned" /\ frame.fn = "_generate_variants") =>
        /\ results # <<>>
        /\ results[1] = [text |-> call_anchor, cost |-> 0, reasons |-> <<>>]
        /\ \A a, b \in 1..Len(results) :
               /\ a < b => results[a].cost <= results[b].cost
               /\ a # b => results[a].text # results[b].text
        /\ \A a \in 1..Len(results) :
               LET v == results[a]
               IN  /\ \A k \in 1..Len(v.reasons) : Cardinality(rules_named(v.reasons[k])) = 1
                   /\ \A k, m \in 1..Len(v.reasons) :
                          k < m => \E r \in rules_named(v.reasons[k]) :
                                       \E t \in rules_named(v.reasons[m]) : r < t
                   /\ v.cost = SumSeq(named_costs(v))

\* an entry made by two rules in a row, of costs 1 and 2, is in the list
C19_Witness ==
    /\ pc = "returned" /\ frame.fn = "_generate_variants"
    /\ \E a \in 1..Len(results) :
           /\ Len(results[a].reasons) = 2
           /\ results[a].cost = COST_COMMON_VARIANT + COST_RARE_VARIANT

\* the positions of the candidate readings that open the remaining hiragana
prefix_readings ==
    {k \in 1..Len(frame.readings) : StartsWith(frame.hira_for_match, frame.readings[k])}

\* the hiragana form of the next anchor of the call
next_anchor_hira == katakana_to_hiragana(frame.next_anchor[1].text)

\* C20: _select_best_reading returns no result exactly when no candidate reading
\* is a literal prefix of the remaining hiragana; otherwise a longest prefix
\* reading R is selected, all of R is consumed, and the emitted reading is R
\* without its tail when the next anchor's hiragana form is a suffix of R and
\* differs from R, and R itself otherwise.
C20_BestReading ==
    (pc = "returned" /\ frame.fn = "_select_best_reading") =>
        /\ results = <<>> <=> prefix_readings = {}
        /\ prefix_readings # {} =>
               \E k \in prefix_readings :
                   LET R == frame.readings[k]
                       strips == /\ frame.next_anchor # <<>>
                                 /\ EndsWith(R, next_anchor_hira)
                                 /\ R # next_anchor_hira
                   IN  /\ \A j \in prefix_readings : Len(R) >= Len(frame.readings[j])
                       /\ Len(results) = 1
                       /\ results[1].hira_consumed = Len(R)
                       /\ strips => results[1].reading \o next_anchor_hira = R
                       /\ ~strips => results[1].reading = R

\* two candidates open the hiragana, the longer one ends with a katakana anchor's
\* hiragana form, and the emitted reading is the longer one without that tail
C20_Witness ==
    /\ pc = "returned" /\ frame.fn = "_select_best_reading"
    /\ Cardinality({frame.readings[k] : k \in prefix_readings}) = 2
    /\ frame.next_anchor # <<>>
    /\ frame.next_anchor[1].char_type = KATAKANA
    /\ results # <<>>
    /\ Len(results[1].reading) < results[1].hira_consumed

(***************************************************************************)
(* The iterations of generate_ruby_for_chunk (SpecUnits, CallChunkStep).   *)
(***************************************************************************)
\* an iteration of the loop has run
stepped == pc = "returned" /\ frame.fn = "generate_ruby_for_chunk"

\* the iteration got as far as the block of strategy B
stepped_block == stepped /\ reaches_block(line_tokens, frame.hira_for_match, frame.st)

\* the text of the dictionary word the token j belongs to
group_text_of(j) ==
    JoinText(SelectSeq(line_tokens, LAMBDA t : t.group_id = At(line_tokens, j).group_id))

\* the 100 hiragana characters from the hiragana cursor on
hira_window_of == Slice(frame.hira_for_match, frame.st.hira_idx, frame.st.hira_idx + LOOKAHEAD)

\* the token j carries a group_id and a reading of its word occurs in the window
true_anchor(j) ==
    /\ At(line_tokens, j).group_id # NoGroup
    /\ any_reading_in(find_word(JP_VOCAB_TRIE, group_text_of(j)), hira_window_of)

\* C21: the block that starts at the cursor takes in the following KANJI/OTHER
\* tokens up to, and not including, the first one that carries a group_id and
\* has a reading of its group in the 100 hiragana characters from the hiragana
\* cursor on; it always ends before a kana or symbol token.
C21_BlockEndsAtTrueAnchor ==
    stepped_block =>
        \A j \in (frame.st.cursor + 1)..(Len(line_tokens) - 1) :
            /\ j < results.cursor =>
                   /\ IsKanjiOrOther(At(line_tokens, j).char_type)
                   /\ ~true_anchor(j)
            /\ j = results.cursor =>
                   \/ ~IsKanjiOrOther(At(line_tokens, j).char_type)
                   \/ true_anchor(j)

(***************************************************************************)
(* The anchor search of _handle_kanji_block (SpecLoops).                   *)
(***************************************************************************)
\* the index of the first token of the anchor whose variants are searched: the
\* tokens from there to the scan cursor make up the anchor's text
anchor_first ==
    CHOOSE j \in 0..(frame.cursor - 1) :
        katakana_to_hiragana(JoinText(Slice(line_tokens, j, frame.cursor)))
            = katakana_to_hiragana(frame.original_anchor_text)

\* the tokens between the block and the anchor
tokens_between == anchor_first - start_search_idx_of(frame.block, line_tokens)

\* the length-ratio penalty for a ruby of ruby_len characters on a block of n
\* characters, times n: 50 for a ratio above 5 or below 0.25, else 5 x |ratio - 2|,
\* and 10 for an empty ruby
stated_penalty(ruby_len, n) ==
    IF ruby_len = 0 THEN 10 * n
    ELSE IF ruby_len > 5 * n \/ 4 * ruby_len < n THEN 50 * n
    ELSE IF ruby_len >= 2 * n THEN 5 * (ruby_len - 2 * n)
    ELSE 5 * (2 * n - ruby_len)

\* 100 x skipped + cost + penalty + 0.01 x pos, times 100 x n
stated_score(skipped, cost, pos, n) ==
    100 * n * (100 * skipped + cost) + 100 * stated_penalty(pos, n) + n * pos

\* C22: the score of a candidate of the anchor search is 100 x (tokens skipped
\* between the block and the anchor) + rule cost + length-ratio penalty + 0.01 x
\* match position, and the best match kept after an anchor is one of minimum
\* score, the earlier one on a tie.
C22_Score ==
    [][/\ (frame'.loop = "search" /\ frame'.anchor_best_match # <<>>)
              => frame'.anchor_best_match[1].score
                     = stated_score(tokens_between', frame'.anchor_best_match[1].cost,
                                    frame'.anchor_best_match[1].pos,
                                    punctuated_len_of(frame'.block))
       /\ (frame.loop = "search" /\ frame'.loop = "scan")
              => frame'.overall_best_match
                     = IF frame.overall_best_match = <<>> THEN frame.anchor_best_match
                       ELSE IF frame.anchor_best_match = <<>> THEN frame.overall_best_match
                       ELSE IF frame.anchor_best_match[1].score
                                   < frame.overall_best_match[1].score
                            THEN frame.anchor_best_match
                       ELSE frame.overall_best_match]_vars

(***************************************************************************)
(* The pre-annotated pattern (SpecUnits, CallChunkStep).                   *)
(***************************************************************************)
\* the iteration is at KANJI "(" kana ")"
at_pattern ==
    /\ stepped
    /\ At(line_tokens, frame.st.cursor).char_type = KANJI
    /\ frame.st.cursor + 3 < Len(line_tokens)
    /\ At(line_tokens, frame.st.cursor + 1).text = <<Ch.lpar>>
    /\ At(line_tokens, frame.st.cursor + 2).char_type \in {HIRAGANA, KATAKANA}
    /\ At(line_tokens, frame.st.cursor + 3).text = <<Ch.rpar>>

\* the hint in hiragana; whether a kana token follows the pattern; hint and
\* okurigana in hiragana
hint_of == katakana_to_hiragana(At(line_tokens, frame.st.cursor + 2).text)
kana_follows ==
    /\ frame.st.cursor + 4 < Len(line_tokens)
    /\ At(line_tokens, frame.st.cursor + 4).char_type \in {HIRAGANA, KATAKANA}
hint_okurigana_of ==
    hint_of \o katakana_to_hiragana(At(line_tokens, frame.st.cursor + 4).text)

\* the state after one span on the kanji token with the reading ruby and
\* consumed tokens
after_span(ruby, consumed) ==
    [cursor |-> frame.st.cursor + consumed,
     hira_idx |-> frame.st.hira_idx + Len(ruby),
     results |-> Append(frame.st.results,
                        <<At(line_tokens, frame.st.cursor).start,
                          At(line_tokens, frame.st.cursor).end, ruby>>)]

\* C23: at KANJI "(" kana ")", optionally followed by a kana token: if the
\* hiragana at the cursor starts with hint+okurigana, one span (kanji.start,
\* kanji.end, hint+okurigana) is emitted, the cursor advances by that length and
\* five tokens are consumed; otherwise, if it starts with the hint, one span with
\* the hint is emitted, the cursor advances by len(hint) and four tokens are
\* consumed; otherwise the kanji token is processed as an ordinary token from
\* the unchanged state.
C23_PreAnnotated ==
    at_pattern =>
        IF kana_follows
           /\ StartsWithAt(frame.hira_for_match, hint_okurigana_of, frame.st.hira_idx)
        THEN results = after_span(hint_okurigana_of, 5)
        ELSE IF StartsWithAt(frame.hira_for_match, hint_of, frame.st.hira_idx)
        THEN results = after_span(hint_of, 4)
        ELSE results = dispatch(line_tokens, frame.hira_for_match, frame.st,
                                At(line_tokens, frame.st.cursor))

\* a hint and an okurigana in katakana matched as one reading
C23_Witness ==
    /\ at_pattern
    /\ kana_follows
    /\ At(line_tokens, frame.st.cursor + 2).char_type = KATAKANA
    /\ results.cursor = frame.st.cursor + 5
    /\ Len(results.results) = 1
    /\ results.results[1][3] = <<Ch.hka, Ch.hka>>

(***************************************************************************)
(* The fallback of _handle_kanji_block (SpecUnits, CallHandleKanjiBlock).  *)
(***************************************************************************)
\* _handle_kanji_block ran its anchor scan and the scan found no candidate
no_candidate ==
    /\ pc = "returned" /\ frame.fn = "_handle_kanji_block"
    /\ ~is_latin_block(frame.block)
    /\ overall_best_match_of(frame.hira_for_match, line_tokens,
                             punctuated_len_of(frame.block),
                             start_search_idx_of(frame.block, line_tokens)) = <<>>

\* the dictionary readings of a text that occur in the remaining hiragana
occurring_readings(text) ==
    SelectSeq(find_word(JP_VOCAB_TRIE, text), LAMBDA r : Contains(frame.hira_for_match, r))

\* the number of characters of the block that take a reading: those of its KANJI
\* tokens and of its OTHER tokens that are not blank
annotatable_length ==
    SumSeq([i \in 1..Len(frame.block) |->
               IF \/ frame.block[i].char_type = KANJI
                  \/ frame.block[i].char_type = OTHER_TYPE /\ Strip(frame.block[i].text) # <<>>
               THEN Len(frame.block[i].text) ELSE 0])

\* what C24 states for the block whose looked-up text is text
fallback_as_stated(text) ==
    IF occurring_readings(text) # <<>>
    THEN /\ Len(results) = 1
         /\ \E i \in 1..Len(occurring_readings(text)) :
                /\ results[1][3] = occurring_readings(text)[i]
                /\ \A j \in 1..Len(occurring_readings(text)) :
                       Len(occurring_readings(text)[j]) <= Len(results[1][3])
    ELSE IF frame.hira_for_match # <<>>
            /\ Len(frame.hira_for_match) <= 5 * annotatable_length
    THEN /\ Len(results) = 1
         /\ results[1][3] = frame.hira_for_match
    ELSE results = <<>>

\* C24: when the anchor scan finds no candidate, the block gets the longest
\* dictionary reading of its whole text that occurs in the remaining hiragana;
\* failing that the entire remaining hiragana, if that is non-empty and at most
\* 5 times the block's annotatable length; otherwise no span.
C24_Fallback == no_candidate => fallback_as_stated(JoinText(frame.block))

\* C24, for the text the code looks up: when the anchor scan finds no candidate,
\* the block gets the longest dictionary reading of its whole text, stripped of
\* the whitespace around it, that occurs in the remaining hiragana; failing that
\* the entire remaining hiragana, if that is non-empty and at most 5 times the
\* block's annotatable length; otherwise no span.
C24_FallbackStripped == no_candidate => fallback_as_stated(Strip(JoinText(frame.block)))

\* a block that ends with a blank token got the longer of two readings of its
\* stripped text, found behind another character of the remaining hiragana
C24_Witness ==
    /\ no_candidate
    /\ Strip(JoinText(frame.block)) # JoinText(frame.block)
    /\ Len(occurring_readings(Strip(JoinText(frame.block)))) = 2
    /\ Len(results) = 1
    /\ results[1][3] = <<Ch.hka, Ch.hna>>
    /\ ~StartsWith(frame.hira_for_match, results[1][3])

(***************************************************************************)
(* The index mapper (SpecUnits, CallToOriginalIndices).                    *)
(***************************************************************************)
\* a call of to_original_indices has returned
mapped == pc = "returned" /\ frame.fn = "to_original_indices"

\* the normalized positions that come from the original character i
contributed_by(i) ==
    {k \in 0..(Len(frame.mapper.normalized_to_original_map) - 1) :
        At(frame.mapper.normalized_to_original_map, k) = i}

\* the original characters that contributed a normalized character in [start, end)
contributors ==
    {At(frame.mapper.normalized_to_original_map, k) : k \in frame.start..(frame.end - 1)}

\* C25: the map has one entry per normalized character, is non-decreasing, and
\* holds an original index once per character of that original character's
\* normalization; for 0 <= s < e <= len(normalized_text), to_original_indices(s, e)
\* is (map[s], map[e-1] + 1), the smallest original range that contains every
\* original character that contributed a normalized character in [s, e), and is
\* (s, e) when every character normalizes to exactly one character.
C25_IndexMap ==
    mapped =>
        /\ Len(frame.mapper.normalized_to_original_map) = Len(frame.mapper.normalized_text)
        /\ \A a, b \in 1..Len(frame.mapper.normalized_to_original_map) :
               a <= b => frame.mapper.normalized_to_original_map[a]
                             <= frame.mapper.normalized_to_original_map[b]
        /\ \A i \in 0..(Len(frame.mapper.original_text) - 1) :
               Cardinality(contributed_by(i))
                   = Len(normalize_NFKC_char(At(frame.mapper.original_text, i)))
        /\ (0 <= frame.start /\ frame.start < frame.end
                /\ frame.end <= Len(frame.mapper.normalized_text)) =>
               /\ results = <<At(frame.mapper.normalized_to_original_map, frame.start),
                              At(frame.mapper.normalized_to_original_map, frame.end - 1) + 1>>
               /\ \A i \in contributors : results[1] <= i /\ i < results[2]
               /\ results[1] \in contributors
               /\ results[2] - 1 \in contributors
               /\ (\A i \in 0..(Len(frame.mapper.original_text) - 1) :
                       Len(normalize_NFKC_char(At(frame.mapper.original_text, i))) = 1)
                      => results = <<frame.start, frame.end>>

\* a range of two normalized characters that come from one original character
\* behind a character with a normalization of three
C25_Witness ==
    /\ mapped
    /\ frame.mapper.original_text = <<Ch.ellip, Ch.heisei>>
    /\ frame.start = 3 /\ frame.end = 5
    /\ results = <<1, 2>>

(***************************************************************************)
(* The cursor and the spans of generate_ruby_for_chunk (SpecUnits,         *)
(* CallChunkStep).                                                         *)
(***************************************************************************)
\* the variants of the kana token at the cursor for the remaining hiragana
kana_variants_here ==
    _generate_variants(NoSpace(katakana_to_hiragana(At(line_tokens, frame.st.cursor).text)),
                       line_tokens, At(line_tokens, frame.st.cursor),
                       From(frame.hira_for_match, frame.st.hira_idx))

\* the iteration is at a kana token none of whose variants is at the cursor
kana_unsynchronized ==
    /\ stepped
    /\ At(line_tokens, frame.st.cursor).char_type \in {HIRAGANA, KATAKANA}
    /\ \A k \in 1..Len(kana_variants_here) :
           ~StartsWithAt(frame.hira_for_match, kana_variants_here[k].text, frame.st.hira_idx)

\* C26: the hiragana cursor stays within 0..len(hira_for_match) and never
\* decreases; an iteration that emits no span for a kanji block, and one that
\* fails to synchronize a kana token, leaves it unchanged.
C26_HiraCursor ==
    stepped =>
        /\ 0 <= frame.st.hira_idx
        /\ frame.st.hira_idx <= results.hira_idx
        /\ results.hira_idx <= Len(frame.hira_for_match)
        /\ (stepped_block /\ results.results = frame.st.results)
               => results.hira_idx = frame.st.hira_idx
        /\ kana_unsynchronized => results.hira_idx = frame.st.hira_idx

\* a kanji block behind a synchronized kana got no span
C26_Witness ==
    /\ stepped_block
    /\ frame.st.hira_idx > 0
    /\ results.results = frame.st.results
    /\ results.hira_idx = frame.st.hira_idx

\* the spans the iteration appended
appended == SubSeq(results.results, Len(frame.st.results) + 1, Len(results.results))

\* C27: the spans generate_ruby_for_chunk appends are in strictly increasing
\* order and pairwise disjoint: each has start < end, and starts at or after the
\* end of the span appended before it.
C27_SpansInOrder ==
    stepped =>
        /\ Len(results.results) >= Len(frame.st.results)
        /\ SubSeq(results.results, 1, Len(frame.st.results)) = frame.st.results
        /\ \A k \in 1..Len(results.results) :
               /\ results.results[k][1] < results.results[k][2]
               /\ k > 1 => results.results[k][1] >= results.results[k - 1][2]

\* one iteration appended two spans of one dictionary word
C27_Witness ==
    /\ stepped
    /\ Len(appended) = 2
    /\ appended[1][2] <= appended[2][1]
    /\ At(line_tokens, frame.st.cursor).group_id # NoGroup

\* the readings of the dictionary word that starts at the cursor, and those of
\* them the remaining hiragana starts with
word_readings ==
    find_word(JP_VOCAB_TRIE,
              JoinText(Slice(line_tokens, frame.st.cursor,
                             GroupEnd(line_tokens, frame.st.cursor + 1,
                                      At(line_tokens, frame.st.cursor).group_id))))
prefix_word_readings ==
    {word_readings[k] : k \in {j \in 1..Len(word_readings) :
        StartsWithAt(frame.hira_for_match, word_readings[j], frame.st.hira_idx)}}

\* the iteration selected a dictionary reading for the group at the cursor
reading_selected ==
    /\ stepped
    /\ ~reaches_block(line_tokens, frame.hira_for_match, frame.st)
    /\ At(line_tokens, frame.st.cursor).char_type \notin {HIRAGANA, KATAKANA, SYMBOL}
    /\ Strip(At(line_tokens, frame.st.cursor).text) # <<>>
    /\ ~(/\ is_annotated_kanji(line_tokens, frame.st.cursor)
         /\ step_annotated(line_tokens, frame.hira_for_match, frame.st) # <<>>)

\* the total length of the readings the iteration emitted
emitted_length == SumSeq([k \in 1..Len(appended) |-> Len(appended[k][3])])

\* C28: when a dictionary reading is selected for a group, the hiragana cursor
\* advances by the length of the whole selected reading, the longest reading the
\* remaining hiragana starts with, also when an okurigana tail was stripped from
\* the emitted reading; the readings emitted for the group are together no longer
\* than that advance.
C28_WholeReadingConsumed ==
    reading_selected =>
        /\ prefix_word_readings # {}
        /\ \E R \in prefix_word_readings :
               /\ \A r \in prefix_word_readings : Len(r) <= Len(R)
               /\ results.hira_idx = frame.st.hira_idx + Len(R)
        /\ emitted_length <= results.hira_idx - frame.st.hira_idx

\* the okurigana tail of the selected reading was stripped: less is emitted than
\* consumed
C28_Witness ==
    /\ reading_selected
    /\ results.hira_idx = frame.st.hira_idx + 2
    /\ Len(appended) = 1
    /\ emitted_length = 1
    /\ results.cursor < Len(line_tokens)
    /\ At(line_tokens, results.cursor).char_type = HIRAGANA

\* C29: every reading generate_ruby_for_chunk emits is a non-empty contiguous
\* substring of the chunk's hira_for_match, whichever step produced it.
C29_ReadingsFromHiragana ==
    stepped =>
        \A k \in 1..Len(results.results) :
            /\ results.results[k][3] # <<>>
            /\ Contains(frame.hira_for_match, results.results[k][3])

\* the dictionary fallback emitted a reading found behind the hiragana cursor
C29_Witness ==
    /\ stepped_block
    /\ Len(appended) = 1
    /\ appended[1][3] \in {word_readings[k] : k \in 1..Len(word_readings)}
    /\ ~StartsWithAt(frame.hira_for_match, appended[1][3], frame.st.hira_idx)

(***************************************************************************)
(* The tokenizer (Spec, Tokenize).                                         *)
(***************************************************************************)
\* two OTHER tokens next to each other at k and k + 1 (1-based)
adjacent_other(tokens, k) ==
    tokens[k].char_type = OTHER_TYPE /\ tokens[k + 1].char_type = OTHER_TYPE

\* C30: the left-to-right scan of _tokenize_orig_line never yields two adjacent
\* OTHER tokens that both lack a group_id, so the merge post-pass leaves the list
\* of the scan unchanged.
C30_MergeIsIdentity ==
    pc = "tokenized" =>
        /\ \A k \in 1..(Len(scan_tokens(orig_text_raw, 0, 0)) - 1) :
               adjacent_other(scan_tokens(orig_text_raw, 0, 0), k)
                   => \/ scan_tokens(orig_text_raw, 0, 0)[k].group_id # NoGroup
                      \/ scan_tokens(orig_text_raw, 0, 0)[k + 1].group_id # NoGroup
        /\ line_tokens = scan_tokens(orig_text_raw, 0, 0)

\* an OTHER token of a dictionary word is followed by an OTHER token without a
\* group, and an ungrouped OTHER token is a run of three characters
C30_Witness ==
    /\ pc = "tokenized"
    /\ \E k \in 1..(Len(line_tokens) - 1) :
           /\ adjacent_other(line_tokens, k)
           /\ line_tokens[k].group_id # NoGroup
           /\ line_tokens[k + 1].group_id = NoGroup
    /\ \E k \in 1..Len(line_tokens) :
           /\ line_tokens[k].char_type = OTHER_TYPE
           /\ line_tokens[k].group_id = NoGroup
           /\ Len(line_tokens[k].text) = 3
====
